---------------------------- MODULE Spec2Model ----------------------------
(***************************************************************************)
(* GPT Chat Save: the document-conversion pipeline.                        *)
(*                                                                         *)
(*   - the batch scheduler processInBatches (content/utils.js, v1.2.0),    *)
(*     specification SpecBatch;                                            *)
(*   - the conversion entry point convertToHTML with processArticle and    *)
(*     the image stage processAllImages / processImage, specifications    *)
(*     Spec, SpecRuns (several requests) and SpecLong (long pages);        *)
(*   - one processArticle call stage by stage on the markup of a turn      *)
(*     (removals on the clone, sanitizer, attribute strip, images,         *)
(*     highlighting), specification SpecClean;                             *)
(*   - the helper functions calculateScale, getScaledDimensions,           *)
(*     shouldSkipImage, sanitizeFilename and isUserMessage, specification  *)
(*     SpecPure;                                                           *)
(*   - the popup script (popup/popup.js): the Export click, the ping, the   *)
(*     script injection and the export request, specification SpecPopup.   *)
(***************************************************************************)
EXTENDS Integers, Sequences, FiniteSets, TLC

VARIABLES
    batch,      \* the state of one processInBatches call
    page,       \* the source document the content script reads
    runs,       \* the convertToHTML calls made so far, in request order
    running,    \* the run executing synchronously now, 0 when the event loop is idle
    article,    \* one processArticle call followed through its stages
    call,       \* one call of a helper function: its arguments and what it returned
    popup       \* one instance of the popup: its flag, its button, its pending callbacks

vars == <<batch, page, runs, running, article, call, popup>>

(***************************************************************************)
(* Bounds of the model.                                                    *)
(***************************************************************************)
MaxItems == 25      \* longest item list given to processInBatches
MaxBatch == 10      \* largest batchSize
MaxShort == 3       \* short item lists are enumerated exhaustively up to this length
MaxVal == 1         \* item values of the short lists are 0..MaxVal
MaxTurns == 2       \* most turns (article elements) in the page
MaxNodes == 2       \* most top-level nodes in the markup of a turn
MaxLongTurns == 11  \* most turns of a long conversation without images
MaxTitle == 4       \* longest page title given to sanitizeFilename
MaxIndex == 3       \* largest turn index given to isUserMessage
MaxClicks == 3      \* most clicks on Export in one popup instance
MaxRuns == 2        \* most convert_to_html requests a page receives

Min(a, b) == IF a <= b THEN a ELSE b

Ceil(n, b) == (n + b - 1) \div b

(***************************************************************************)
(* Batch scheduler: processInBatches(items, transform, {batchSize,         *)
(* yieldFn, onProgress}).                                                  *)
(***************************************************************************)

\* The transform of the unit tests: (item) => item * 2.
Transform(item) == item * 2

\* Item lists: every short list over 0..MaxVal, and the lists 1..n of distinct items.
ItemLists ==
    (UNION {[1..n -> 0..MaxVal] : n \in 0..MaxShort})
        \cup {[k \in 1..n |-> k] : n \in 0..MaxItems}

\* State of a processInBatches call that has not run.
BatchIdle ==
    [items |-> <<>>, batchSize |-> 1, hasProgress |-> FALSE, pc |-> "idle",
     i |-> 0, j |-> 0, results |-> <<>>, progress |-> <<>>, yields |-> 0,
     calls |-> 0, inFlight |-> 0, trace |-> <<>>]

\* The call processInBatches(items, transform, {batchSize, yieldFn, onProgress}) at entry.
BatchCall(items, batchSize, hasProgress) ==
    [BatchIdle EXCEPT !.items = items, !.batchSize = batchSize,
                      !.hasProgress = hasProgress, !.pc = "chunk"]

\* One past the last index (1-based) of the chunk that starts at offset b.i.
ChunkEnd(b) == Min(b.i + b.batchSize, Len(b.items))

\* Loop condition of the chunk loop: i < items.length.
MoreChunksOffByOne(b) == b.i <= Len(b.items)
MoreChunks(b) == b.i < Len(b.items)

\* results.push(await transform(item)).
PushResultFront(results, r) == <<r>> \o results
PushResult(results, r) == Append(results, r)

\* processedCount of the progress report of the chunk at offset b.i, clamped to the total.
ProcessedUnclamped(b) == b.i + b.batchSize
ProcessedCount(b) == Min(b.i + b.batchSize, Len(b.items))

\* What follows the progress report of a chunk: await yieldFn(), after every chunk,
\* the last one included.
AfterProgressOnlyBetween(b) ==
    IF b.i + b.batchSize < Len(b.items) THEN "yield" ELSE "done"
AfterProgressWithoutYield(b) == "yielded"
AfterProgress(b) == "yield"

\* for (let i = 0; i < items.length; i += batchSize): test the loop condition.
ChunkBegin ==
    /\ batch.pc = "chunk"
    /\ batch' = IF MoreChunks(batch)
                THEN [batch EXCEPT !.pc = "transform", !.j = batch.i + 1]
                ELSE [batch EXCEPT !.pc = "done"]
    /\ UNCHANGED <<page, runs, running, article, call, popup>>

\* transform(item) is called for the next item of the chunk.
TransformStart ==
    /\ batch.pc = "transform"
    /\ batch' = IF batch.j <= ChunkEnd(batch)
                THEN [batch EXCEPT !.pc = "await", !.calls = @ + 1, !.inFlight = @ + 1,
                                   !.trace = Append(@, <<"transform", batch.j>>)]
                ELSE [batch EXCEPT !.pc = "progress"]
    /\ UNCHANGED <<page, runs, running, article, call, popup>>

\* The awaited transform settles; its result is pushed.
TransformDone ==
    /\ batch.pc = "await"
    /\ batch' = [batch EXCEPT !.pc = "transform", !.inFlight = @ - 1, !.j = @ + 1,
                              !.results = PushResult(@, Transform(batch.items[batch.j])),
                              !.trace = Append(@, <<"settled", batch.j>>)]
    /\ UNCHANGED <<page, runs, running, article, call, popup>>

\* onProgress(processedCount, totalCount) after the chunk, when a callback was given.
ReportProgress ==
    /\ batch.pc = "progress"
    /\ batch' = IF batch.hasProgress
                THEN [batch EXCEPT !.pc = AfterProgress(batch),
                        !.progress = Append(@, <<ProcessedCount(batch), Len(batch.items)>>),
                        !.trace = Append(@, <<"progress", ProcessedCount(batch)>>)]
                ELSE [batch EXCEPT !.pc = AfterProgress(batch)]
    /\ UNCHANGED <<page, runs, running, article, call, popup>>

\* await yieldFn(): the yield primitive is invoked.
YieldInvoke ==
    /\ batch.pc = "yield"
    /\ batch' = [batch EXCEPT !.pc = "yielded", !.yields = @ + 1,
                              !.trace = Append(@, <<"yield", batch.yields + 1>>)]
    /\ UNCHANGED <<page, runs, running, article, call, popup>>

\* The yield resolves; the loop advances by batchSize.
YieldResume ==
    /\ batch.pc = "yielded"
    /\ batch' = [batch EXCEPT !.pc = "chunk", !.i = @ + batch.batchSize,
                              !.trace = Append(@, <<"resumed", batch.yields>>)]
    /\ UNCHANGED <<page, runs, running, article, call, popup>>

(***************************************************************************)
(* The source document.                                                    *)
(***************************************************************************)

\* Image sources of the page: one embedded (data:) source and two remote ones.
DataSources ==
    {"data:image/png;base64,AAAA", "data:image/jpeg;base64,AAAA",
     "data:image/jpeg;base64,BBBB"}
UrlSources == {"https://files.example/a.png", "https://files.example/b.png"}

\* The img elements of one turn, by source, in document order.
ImgLists ==
    { <<>>,
      <<"data:image/png;base64,AAAA", "https://files.example/a.png">>,
      <<"https://files.example/a.png", "https://files.example/b.png">> }

\* A turn (article element): its role marker and its images.
Turns == [role : {"user", "assistant", "none"}, imgs : ImgLists]

\* Which of the injected libraries are defined in the page: DOMPurify
\* (lib/purify.min.js), processAllImages (content/images.js), hljs
\* (lib/highlight.min.js).  All of them, or one missing.
LibSets ==
    { [domPurify |-> TRUE, imagesJs |-> TRUE, hljs |-> TRUE],
      [domPurify |-> FALSE, imagesJs |-> TRUE, hljs |-> TRUE],
      [domPurify |-> TRUE, imagesJs |-> FALSE, hljs |-> TRUE],
      [domPurify |-> TRUE, imagesJs |-> TRUE, hljs |-> FALSE] }

\* Lists of at most MaxTurns turns.
TurnLists == UNION {[1..n -> Turns] : n \in 0..MaxTurns}

MakePage(streaming, libs, hasMain, articles) ==
    [streaming |-> streaming, hasMain |-> hasMain, articles |-> articles,
     domPurify |-> libs.domPurify, imagesJs |-> libs.imagesJs, hljs |-> libs.hljs]

\* The pages: no conversation container (and so no article in it), or a
\* container with its turns; streaming or not.
Pages ==
    {MakePage(s, l, FALSE, <<>>) : s \in BOOLEAN, l \in LibSets}
        \cup {MakePage(s, l, TRUE, a) : s \in BOOLEAN, l \in LibSets, a \in TurnLists}

\* The imageQuality values a request carries: the default of convertToHTML and
\* the two values the popup sends.
RequestQualities == {"medium", "include", "none"}

(***************************************************************************)
(* Image presets and the skip policy.                                      *)
(***************************************************************************)
MIN_IMAGE_SIZE == 50

\* IMAGE_PRESETS[preset]: high, medium, low are objects, none is null, any other
\* key is undefined.  The JPEG quality is in hundredths (0.85 is 85).
NoPreset == [maxWidth |-> 0, maxHeight |-> 0, quality |-> 0]

ImagePreset(preset) ==
    CASE preset = "high" -> [maxWidth |-> 1200, maxHeight |-> 900, quality |-> 90]
      [] preset = "medium" -> [maxWidth |-> 800, maxHeight |-> 600, quality |-> 85]
      [] preset = "low" -> [maxWidth |-> 500, maxHeight |-> 375, quality |-> 75]
      [] OTHER -> NoPreset

\* IMAGE_PRESETS[preset] is an object (not null, not undefined).
PresetRecognized(preset) == preset \in {"high", "medium", "low"}

\* src.startsWith('data:')
IsDataUrl(src) == src \in DataSources

\* shouldSkipImage(src, width, height)
ShouldSkipImageNever(src, width, height) == FALSE
ShouldSkipImageDataOnly(src, width, height) == IsDataUrl(src)
ShouldSkipImageAtThreshold(src, width, height) ==
    \/ IsDataUrl(src)
    \/ width <= MIN_IMAGE_SIZE
    \/ height <= MIN_IMAGE_SIZE
ShouldSkipImage(src, width, height) ==
    \/ IsDataUrl(src)
    \/ width < MIN_IMAGE_SIZE
    \/ height < MIN_IMAGE_SIZE

\* What an img element of the detached fragment shows when processImage reads
\* it: natural size (0 x 0 while nothing is available) and the complete flag.
ImgReadings ==
    { [w |-> 0, h |-> 0, complete |-> FALSE],
      [w |-> 0, h |-> 0, complete |-> TRUE],
      [w |-> 49, h |-> 2000, complete |-> TRUE],
      [w |-> 50, h |-> 50, complete |-> TRUE],
      [w |-> 2000, h |-> 1500, complete |-> TRUE],
      [w |-> 2000, h |-> 1500, complete |-> FALSE] }

\* waitForLoad resolves at once: img.complete && img.naturalWidth > 0.
AlreadyLoadedNever(reading) == FALSE
AlreadyLoaded(reading) == reading.complete /\ reading.w > 0

(***************************************************************************)
(* Scaling (content/images.js).  A scale factor is kept as an exact        *)
(* fraction num/den with den > 0; two fractions are compared by cross      *)
(* multiplication.                                                         *)
(***************************************************************************)
Frac(num, den) == [num |-> num, den |-> den]

FracLeq(a, b) == a.num * b.den <= b.num * a.den

\* Math.min of two factors.
FracMin(a, b) == IF FracLeq(a, b) THEN a ELSE b

\* calculateScale(width, height, maxWidth, maxHeight)
CalculateScaleUncapped(width, height, maxWidth, maxHeight) ==
    FracMin(Frac(maxWidth, width), Frac(maxHeight, height))
CalculateScale(width, height, maxWidth, maxHeight) ==
    LET scaleX == Frac(maxWidth, width)
        scaleY == Frac(maxHeight, height)
    IN  FracMin(FracMin(scaleX, scaleY), Frac(1, 1))

\* Math.round of num/den >= 0: the nearest integer, a half goes up.
Round(num, den) == (2 * num + den) \div (2 * den)

\* The null that getScaledDimensions returns, and a pair of dimensions.
NoDimensions == [null |-> TRUE, width |-> 0, height |-> 0]

Dimensions(width, height) == [null |-> FALSE, width |-> width, height |-> height]

\* getScaledDimensions(width, height, preset)
GetScaledDimensionsPerAxis(width, height, preset) ==
    LET config == ImagePreset(preset)
    IN  IF config = NoPreset
        THEN NoDimensions
        ELSE LET scaleX == FracMin(Frac(config.maxWidth, width), Frac(1, 1))
                 scaleY == FracMin(Frac(config.maxHeight, height), Frac(1, 1))
             IN  Dimensions(Round(width * scaleX.num, scaleX.den),
                            Round(height * scaleY.num, scaleY.den))
GetScaledDimensionsUnchecked(width, height, preset) ==
    LET config == IF preset = "none" THEN NoPreset ELSE ImagePreset("medium")
    IN  IF config = NoPreset
        THEN NoDimensions
        ELSE LET scale == CalculateScale(width, height, config.maxWidth, config.maxHeight)
             IN  Dimensions(Round(width * scale.num, scale.den),
                            Round(height * scale.num, scale.den))
GetScaledDimensions(width, height, preset) ==
    LET config == ImagePreset(preset)
    IN  IF config = NoPreset
        THEN NoDimensions
        ELSE LET scale == CalculateScale(width, height, config.maxWidth, config.maxHeight)
             IN  Dimensions(Round(width * scale.num, scale.den),
                            Round(height * scale.num, scale.den))

(***************************************************************************)
(* sanitizeFilename(title) (content/images.js).  A title is a sequence of  *)
(* characters; a character outside ASCII is written by its code point.     *)
(***************************************************************************)
\* [<>:"/\\|?*] and the control characters \x00-\x1F, \x7F.
UnsafeChars ==
    {"<", ">", ":", "\"", "/", "\\", "|", "?", "*", "U+0000", "U+0009", "U+001F", "U+007F"}

\* What String.prototype.trim removes.
WhiteSpace == {" ", "U+0009", "U+000A", "U+00A0"}

\* NFKC of one character: the ligature fi (U+FB01) becomes "fi", the fullwidth
\* colon (U+FF1A) becomes ":", the no-break space a space.
NormalizeChar(c) ==
    CASE c = "U+FB01" -> <<"f", "i">>
      [] c = "U+FF1A" -> <<":">>
      [] c = "U+00A0" -> <<" ">>
      [] OTHER -> <<c>>

\* title.normalize('NFKC')
RECURSIVE Normalize(_)
Normalize(t) ==
    IF t = <<>> THEN <<>> ELSE NormalizeChar(Head(t)) \o Normalize(Tail(t))

\* .replace(/[\x00-\x1F\x7F<>:"/\\|?*]/g, '-')
ReplaceUnsafe(t) == [k \in 1..Len(t) |-> IF t[k] \in UnsafeChars THEN "-" ELSE t[k]]

\* .replace(/-+/g, '-')
RECURSIVE CollapseHyphens(_)
CollapseHyphens(t) ==
    IF Len(t) < 2 THEN t
    ELSE IF t[1] = "-" /\ t[2] = "-" THEN CollapseHyphens(Tail(t))
    ELSE <<t[1]>> \o CollapseHyphens(Tail(t))

\* .replace(/^-|-$/g, ''): a hyphen at the very start and one at the very end.
StripEdgeHyphens(t) ==
    LET a == IF t # <<>> /\ Head(t) = "-" THEN Tail(t) ELSE t
    IN  IF a # <<>> /\ a[Len(a)] = "-" THEN SubSeq(a, 1, Len(a) - 1) ELSE a

\* .trim()
Trim(t) ==
    LET keep == {k \in 1..Len(t) : t[k] \notin WhiteSpace}
    IN  IF keep = {} THEN <<>>
        ELSE SubSeq(t, CHOOSE a \in keep : \A k \in keep : a <= k,
                       CHOOSE b \in keep : \A k \in keep : k <= b)

\* 'chatgpt-conversation'
FALLBACK_NAME ==
    <<"c", "h", "a", "t", "g", "p", "t", "-",
      "c", "o", "n", "v", "e", "r", "s", "a", "t", "i", "o", "n">>

\* sanitizeFilename(title)
SanitizeFilenameNoFallback(title) ==
    Trim(StripEdgeHyphens(CollapseHyphens(ReplaceUnsafe(Normalize(title)))))
SanitizeFilename(title) ==
    LET cleaned == Trim(StripEdgeHyphens(CollapseHyphens(ReplaceUnsafe(Normalize(title)))))
    IN  IF cleaned = <<>> THEN FALLBACK_NAME ELSE cleaned

(***************************************************************************)
(* isUserMessage(article, index), index counted from 0.                    *)
(***************************************************************************)
IsUserMessageAssistantFirst(hasUserMarker, hasAssistantMarker, index) ==
    IF hasAssistantMarker THEN FALSE
    ELSE IF hasUserMarker THEN TRUE
    ELSE index % 2 = 0
IsUserMessage(hasUserMarker, hasAssistantMarker, index) ==
    IF hasUserMarker THEN TRUE
    ELSE IF hasAssistantMarker THEN FALSE
    ELSE index % 2 = 0

\* console.warn of isUserMessage: reached when neither selector matched.
IndexFallbackWarned(hasUserMarker, hasAssistantMarker) ==
    ~hasUserMarker /\ ~hasAssistantMarker

MessageClassOfNext(turn, index) ==
    IF IsUserMessage(turn.role = "user", turn.role = "assistant", index + 1)
    THEN "user-message" ELSE "assistant-message"
MessageClass(turn, index) ==
    IF IsUserMessage(turn.role = "user", turn.role = "assistant", index)
    THEN "user-message" ELSE "assistant-message"

(***************************************************************************)
(* The popup script.  Every chrome.* call of the popup takes a callback;   *)
(* `pending` holds the callbacks that have been registered and have not    *)
(* run yet, `trace` what the popup has done since it was opened.           *)
(***************************************************************************)
\* The popup as it is opened: exportInProgress = false, the button enabled.
NewPopup ==
    [open |-> TRUE, exportInProgress |-> FALSE, disabled |-> FALSE, status |-> "",
     pending |-> <<>>, clicks |-> 0, trace |-> <<>>]

\* The scripts of the click handler, in the order of the array.
SCRIPTS ==
    <<"lib/purify.min.js", "lib/highlight.min.js", "content/utils.js",
      "content/images.js", "content/content.js">>

\* A registered callback: of tabs.query, of the ping, of executeScript (with the
\* scripts of that injectScripts call, the current one first), of the
\* convert_to_html message, of the close timer.
Callback(kind, scripts) == [kind |-> kind, scripts |-> scripts]

Register(p, cb) == [p EXCEPT !.pending = Append(@, cb)]

Log(p, event) == [p EXCEPT !.trace = Append(@, event)]

\* The callback at position k of pending runs: it is no longer pending.
Taken(p, k) ==
    [p EXCEPT !.pending = SubSeq(@, 1, k - 1) \o SubSeq(@, k + 1, Len(@))]

\* if (exportInProgress) return;
ClickIgnoredNever(p) == FALSE
ClickIgnored(p) == p.exportInProgress

\* resetExportState()
ResetExportStateButtonOnly(p) == [p EXCEPT !.disabled = FALSE]
ResetExportState(p) == [p EXCEPT !.exportInProgress = FALSE, !.disabled = FALSE]

\* showError(message)
ShowError(p, message) ==
    ResetExportState(Log([p EXCEPT !.status = "error"], <<"error", message>>))

\* showSuccess(messageCount): the status and the timer that closes the popup.
ShowSuccess(p) ==
    Register(Log([p EXCEPT !.status = "success"], <<"success", "">>),
             Callback("close", <<>>))

\* sendExportMessage(tabId, theme, imageQuality)
SendExportMessage(p) ==
    Register(Log(p, <<"request", "convert_to_html">>), Callback("export", <<>>))

\* injectScripts(tabId, scripts, callback)
InjectScripts(p, scripts) ==
    IF scripts = <<>>
    THEN SendExportMessage(p)
    ELSE Register(Log(p, <<"inject", Head(scripts)>>), Callback("inject", scripts))

\* The callback of chrome.tabs.executeScript for the first of scripts.
AfterExecuteScriptGoesOn(p, scripts, failed) ==
    IF failed
    THEN InjectScripts(Log(p, <<"injectFailed", Head(scripts)>>), Tail(scripts))
    ELSE InjectScripts(Log(p, <<"injected", Head(scripts)>>), Tail(scripts))
AfterExecuteScript(p, scripts, failed) ==
    IF failed
    THEN ShowError(Log(p, <<"injectFailed", Head(scripts)>>), "Failed to load")
    ELSE InjectScripts(Log(p, <<"injected", Head(scripts)>>), Tail(scripts))

(***************************************************************************)
(* A conversion run: one call of convertToHTML.                            *)
(***************************************************************************)
NoResult ==
    [settled |-> "pending", success |-> FALSE, error |-> "", isStreaming |-> FALSE,
     messageCount |-> 0]

Failure(message) ==
    [settled |-> "resolved", success |-> FALSE, error |-> message,
     isStreaming |-> FALSE, messageCount |-> 0]

StreamingFailure ==
    [settled |-> "resolved", success |-> FALSE,
     error |-> "ChatGPT is still generating a response. Please wait for it to finish.",
     isStreaming |-> TRUE, messageCount |-> 0]

Success(count) ==
    [settled |-> "resolved", success |-> TRUE, error |-> "", isStreaming |-> FALSE,
     messageCount |-> count]

NoImageResult ==
    [kind |-> "none", success |-> FALSE, skipped |-> FALSE, dataUrl |-> "",
     originalSrc |-> "", error |-> "", fallbackUrl |-> ""]

\* createImageResult.success / skipped / error
ImageSuccess(dataUrl, originalSrc) ==
    [kind |-> "success", success |-> TRUE, skipped |-> FALSE, dataUrl |-> dataUrl,
     originalSrc |-> originalSrc, error |-> "", fallbackUrl |-> ""]

ImageSkipped(dataUrl) ==
    [kind |-> "skipped", success |-> TRUE, skipped |-> TRUE, dataUrl |-> dataUrl,
     originalSrc |-> "", error |-> "", fallbackUrl |-> ""]

ImageError(error, originalSrc) ==
    [kind |-> "error", success |-> FALSE, skipped |-> FALSE, dataUrl |-> "",
     originalSrc |-> originalSrc, error |-> error, fallbackUrl |-> originalSrc]

ZeroStats == [processed |-> 0, failed |-> 0, skipped |-> 0]

\* No image is being awaited.
NoReading == [w |-> 0, h |-> 0, complete |-> FALSE]

\* The run at the entry of convertToHTML(selectedTheme, imageQuality).
NewRun(imageQuality) ==
    [quality |-> imageQuality, pc |-> "start", index |-> 0, messageClass |-> "",
     htmlParts |-> <<>>, tempDiv |-> <<>>, sanitized |-> FALSE, imgIdx |-> 0,
     stats |-> ZeroStats, imgResult |-> NoImageResult,
     started |-> <<>>, inFlight |-> {}, imagesFailed |-> 0,
     htmlContent |-> <<>>, joined |-> 0, downloads |-> 0,
     awaited |-> NoReading, faultAt |-> "none", result |-> NoResult,
     responses |-> 0, response |-> NoResult]

\* An img element of the fragment as the sanitizer left it.
ImgElement(src) == [form |-> "img", src |-> src, href |-> "", exported |-> FALSE]

\* The three precondition checks at the head of convertToHTML, in their order:
\* the result to return, or NoResult to go on.
PreconditionNoTurnCheck(pg) ==
    IF pg.streaming THEN StreamingFailure
    ELSE IF ~pg.hasMain
    THEN Failure("Could not find the conversation. Make sure you are on a ChatGPT chat page.")
    ELSE NoResult
PreconditionNoStreamingCheck(pg) ==
    IF ~pg.hasMain
    THEN Failure("Could not find the conversation. Make sure you are on a ChatGPT chat page.")
    ELSE IF Len(pg.articles) = 0
    THEN Failure("No messages found in this conversation.")
    ELSE NoResult
Precondition(pg) ==
    IF pg.streaming THEN StreamingFailure
    ELSE IF ~pg.hasMain
    THEN Failure("Could not find the conversation. Make sure you are on a ChatGPT chat page.")
    ELSE IF Len(pg.articles) = 0
    THEN Failure("No messages found in this conversation.")
    ELSE NoResult

\* The catch block of convertToHTML: the fault raised at `stage` becomes the
\* structured failure result { success: false, error: error.message }.
CaughtAfterClick(run, stage, message) ==
    [run EXCEPT !.pc = "done", !.faultAt = stage, !.inFlight = {},
                !.downloads = IF stage = "download" THEN @ + 1 ELSE @,
                !.result = Failure(message)]
CaughtRethrown(run, stage, message) ==
    [run EXCEPT !.pc = "done", !.faultAt = stage, !.inFlight = {},
                !.result = [NoResult EXCEPT !.settled = "rejected", !.error = message]]
Caught(run, stage, message) ==
    [run EXCEPT !.pc = "done", !.faultAt = stage, !.inFlight = {},
                !.result = Failure(message)]

\* typeof DOMPurify === 'undefined' at the head of processArticle.
SanitizerMissingIgnored(pg) == FALSE
SanitizerMissing(pg) == ~pg.domPurify

\* canvas.toDataURL('image/jpeg', quality) of the image loaded from src.
EncodedUrl(src) ==
    IF src = "https://files.example/a.png"
    THEN "data:image/jpeg;base64,AAAA" ELSE "data:image/jpeg;base64,BBBB"

\* try { resizeAndEncode } catch of processImage: the encode succeeds, or throws
\* (a cross-origin image taints the canvas) and the catch builds the error result.
EncodeResultUncaught(src, encodeOk) ==
    IF encodeOk THEN ImageSuccess(EncodedUrl(src), src)
    ELSE [NoImageResult EXCEPT !.kind = "thrown", !.error = "The operation is insecure."]
EncodeResult(src, encodeOk) ==
    IF encodeOk THEN ImageSuccess(EncodedUrl(src), src)
    ELSE ImageError("The operation is insecure.", src)

\* The body of the loop of processAllImages once processImage has returned
\* `result` for the image at imgIdx.
ApplyImageResultAbortOnError(run, result) ==
    IF result.skipped
    THEN [run EXCEPT !.stats.skipped = @ + 1, !.imgResult = result,
                     !.imgIdx = @ + 1, !.pc = "images"]
    ELSE IF result.success
    THEN [run EXCEPT !.tempDiv[run.imgIdx] =
                         [form |-> "img", src |-> result.dataUrl, href |-> "",
                          exported |-> TRUE],
                     !.stats.processed = @ + 1, !.imgResult = result,
                     !.imgIdx = @ + 1, !.pc = "images"]
    ELSE [run EXCEPT !.imgResult = result, !.imagesFailed = @ + 1, !.inFlight = {},
                     !.pc = "done", !.result = Failure(result.error)]
ApplyImageResult(run, result) ==
    IF result.skipped
    THEN [run EXCEPT !.stats.skipped = @ + 1, !.imgResult = result,
                     !.imgIdx = @ + 1, !.pc = "images"]
    ELSE IF result.success
    THEN [run EXCEPT !.tempDiv[run.imgIdx] =
                         [form |-> "img", src |-> result.dataUrl, href |-> "",
                          exported |-> TRUE],
                     !.stats.processed = @ + 1, !.imgResult = result,
                     !.imgIdx = @ + 1, !.pc = "images"]
    ELSE [run EXCEPT !.tempDiv[run.imgIdx] =
                         [form |-> "error", src |-> "", href |-> result.fallbackUrl,
                          exported |-> FALSE],
                     !.stats.failed = @ + 1, !.imagesFailed = @ + 1,
                     !.imgResult = result, !.imgIdx = @ + 1, !.pc = "images"]

\* The 'none' branch of processAllImages: every img becomes a placeholder span.
PlaceholderKeepsImage(el) == el
Placeholder(el) == [form |-> "placeholder", src |-> "", href |-> "", exported |-> FALSE]

\* await waitForLoad(img) on an image that is not loaded yet: processImage, and
\* with it processAllImages, processArticle and the loop of convertToHTML that
\* awaits it, is suspended until the image signals load or error.
\* `reading` is what the image showed (naturalWidth, naturalHeight, complete)
\* when processImage looked at it.
OnAwaitLoadLoopGoesOn(run, reading) ==
    [run EXCEPT !.pc = "loop", !.index = @ + 1, !.awaited = reading]
OnAwaitLoad(run, reading) == [run EXCEPT !.pc = "waitload", !.awaited = reading]

\* The listener's .then(result => sendResponse(result)) and
\* .catch(error => sendResponse({ success: false, error: error.message })).
ListenerResponse(result) ==
    IF result.settled = "rejected" THEN Failure(result.error) ELSE result

\* The promise of convertToHTML has settled: the reaction of the listener runs
\* before control goes back to the event loop and calls sendResponse.
AnsweredNever(run) == run
Answered(run) ==
    IF run.pc = "done"
    THEN [run EXCEPT !.responses = @ + 1, !.response = ListenerResponse(run.result)]
    ELSE run

\* The run r takes a step: it becomes newRun; the event loop is idle again when
\* the run is suspended or has returned.
Update(r, newRun) ==
    /\ runs' = [runs EXCEPT ![r] = Answered(newRun)]
    /\ running' = IF newRun.pc \in {"waitload", "done"} THEN 0 ELSE r
    /\ UNCHANGED <<batch, page, article, call, popup>>

\* The onMessage listener receives convert_to_html and calls convertToHTML.
\* Spec follows the first request to the page.
Request ==
    /\ running = 0
    /\ runs = <<>>
    /\ \E q \in RequestQualities :
          /\ runs' = Append(runs, NewRun(q))
          /\ running' = Len(runs) + 1
    /\ UNCHANGED <<batch, page, article, call, popup>>

\* convertToHTML: isStreaming(), the container, the articles.
CheckPreconditions ==
    \E r \in 1..Len(runs) :
        /\ running = r
        /\ runs[r].pc = "start"
        /\ LET res == Precondition(page)
           IN  Update(r, IF res.settled = "resolved"
                         THEN [runs[r] EXCEPT !.pc = "done", !.result = res]
                         ELSE [runs[r] EXCEPT !.pc = "template"])

\* detectTheme, getThemeColors, generateHTMLTemplate: htmlParts = [template].
BuildTemplate ==
    \E r \in 1..Len(runs) :
        /\ running = r
        /\ runs[r].pc = "template"
        /\ \E fault \in BOOLEAN :
              Update(r, IF fault
                        THEN Caught(runs[r], "template", "template fault")
                        ELSE [runs[r] EXCEPT !.pc = "loop", !.index = 0,
                                !.htmlParts = << [kind |-> "template", class |-> "",
                                                  content |-> <<>>, sanitized |-> TRUE,
                                                  turn |-> 0] >>])

\* for (let index = 0; index < articles.length; index++): the loop test and
\* isUserMessage(article, index).
LoopTest ==
    \E r \in 1..Len(runs) :
        /\ running = r
        /\ runs[r].pc = "loop"
        /\ Update(r, IF runs[r].index < Len(page.articles)
                     THEN [runs[r] EXCEPT !.pc = "article",
                             !.messageClass =
                                 MessageClass(page.articles[runs[r].index + 1], runs[r].index)]
                     ELSE [runs[r] EXCEPT !.pc = "close"])

\* processArticle(article, imageQuality) up to the attribute strip: the sanitizer
\* check, the clone and its structural removals, DOMPurify.sanitize into tempDiv.
ArticleSanitize ==
    \E r \in 1..Len(runs) :
        /\ running = r
        /\ runs[r].pc = "article"
        /\ LET run == [runs[r] EXCEPT !.started = Append(@, runs[r].index + 1),
                                      !.inFlight = @ \cup {runs[r].index + 1}]
               imgs == page.articles[run.index + 1].imgs
           IN  \E fault \in BOOLEAN :
                  Update(r, IF SanitizerMissing(page)
                            THEN Caught(run, "sanitizer",
                                     "DOMPurify library not loaded. Try refreshing the page.")
                            ELSE IF fault
                            THEN Caught(run, "article", "turn fault")
                            ELSE [run EXCEPT !.pc = "allimages",
                                    !.sanitized = page.domPurify,
                                    !.tempDiv = [k \in 1..Len(imgs) |-> ImgElement(imgs[k])]])

\* if (typeof processAllImages !== 'undefined') await processAllImages(tempDiv,
\* imageQuality): the entry of processAllImages and its 'none' branch.
AllImagesBegin ==
    \E r \in 1..Len(runs) :
        /\ running = r
        /\ runs[r].pc = "allimages"
        /\ LET run == runs[r]
           IN  Update(r, IF ~page.imagesJs
                         THEN [run EXCEPT !.pc = "highlight"]
                         ELSE IF run.quality = "none" \/ ~PresetRecognized(run.quality)
                         THEN [run EXCEPT !.pc = "highlight",
                                 !.stats = [ZeroStats EXCEPT !.skipped = Len(run.tempDiv)],
                                 !.tempDiv = [k \in 1..Len(run.tempDiv) |->
                                                 Placeholder(run.tempDiv[k])]]
                         ELSE [run EXCEPT !.pc = "images", !.stats = ZeroStats, !.imgIdx = 1])

\* for (const img of images) { const result = await processImage(img, preset) ... }
ProcessImage ==
    \E r \in 1..Len(runs) :
        /\ running = r
        /\ runs[r].pc = "images"
        /\ LET run == runs[r]
           IN  IF run.imgIdx > Len(run.tempDiv)
               THEN Update(r, [run EXCEPT !.pc = "highlight"])
               ELSE \E reading \in ImgReadings, encodeOk \in BOOLEAN :
                      LET src == run.tempDiv[run.imgIdx].src
                      IN  Update(r,
                            IF ShouldSkipImage(src, reading.w, reading.h)
                            THEN ApplyImageResult(run, ImageSkipped(src))
                            ELSE IF AlreadyLoaded(reading)
                            THEN ApplyImageResult(run, EncodeResult(src, encodeOk))
                            ELSE OnAwaitLoad(run, reading))

\* img.onload fires for the awaited image: waitForLoad resolves, then resizeAndEncode.
ImgLoad ==
    \E r \in 1..Len(runs) :
        /\ running = 0
        /\ runs[r].pc = "waitload"
        /\ ~runs[r].awaited.complete
        /\ \E encodeOk \in BOOLEAN :
              Update(r, ApplyImageResult([runs[r] EXCEPT !.awaited = NoReading],
                            EncodeResult(runs[r].tempDiv[runs[r].imgIdx].src, encodeOk)))

\* img.onerror fires for the awaited image: waitForLoad rejects.
ImgError ==
    \E r \in 1..Len(runs) :
        /\ running = 0
        /\ runs[r].pc = "waitload"
        /\ ~runs[r].awaited.complete
        /\ Update(r, ApplyImageResult([runs[r] EXCEPT !.awaited = NoReading],
                        ImageError("Image failed to load",
                                   runs[r].tempDiv[runs[r].imgIdx].src)))

\* The rest of processArticle (highlighting, pre clean-up, return tempDiv.innerHTML)
\* and htmlParts.push of the message div.
ArticleFinish ==
    \E r \in 1..Len(runs) :
        /\ running = r
        /\ runs[r].pc = "highlight"
        /\ LET run == runs[r]
           IN  \E fault \in BOOLEAN :
                  Update(r, IF fault
                            THEN Caught(run, "article", "turn fault")
                            ELSE [run EXCEPT !.pc = "loop",
                                    !.htmlParts = Append(@,
                                        [kind |-> "message", class |-> run.messageClass,
                                         content |-> run.tempDiv, sanitized |-> run.sanitized,
                                         turn |-> run.index + 1]),
                                    !.inFlight = @ \ {run.index + 1},
                                    !.tempDiv = <<>>, !.imgIdx = 0,
                                    !.index = @ + 1])

\* htmlParts.push(closing markup); htmlContent = htmlParts.join('').
Assemble ==
    \E r \in 1..Len(runs) :
        /\ running = r
        /\ runs[r].pc = "close"
        /\ LET run == runs[r]
               parts == Append(run.htmlParts,
                           [kind |-> "footer", class |-> "", content |-> <<>>,
                            sanitized |-> TRUE, turn |-> 0])
           IN  \E fault \in BOOLEAN :
                  Update(r, IF fault
                            THEN Caught(run, "assembly", "assembly fault")
                            ELSE [run EXCEPT !.pc = "download", !.htmlParts = parts,
                                    !.htmlContent = parts, !.joined = @ + 1])

\* Blob, object URL, file name, link.click(); return { success: true, messageCount }.
Download ==
    \E r \in 1..Len(runs) :
        /\ running = r
        /\ runs[r].pc = "download"
        /\ \E fault \in BOOLEAN :
              Update(r, IF fault
                        THEN Caught(runs[r], "download", "download fault")
                        ELSE [runs[r] EXCEPT !.pc = "done", !.downloads = @ + 1,
                                !.result = Success(Len(page.articles))])

\* No helper call.
NoCall ==
    [fn |-> "none", done |-> FALSE, width |-> 0, height |-> 0, maxWidth |-> 0,
     maxHeight |-> 0, preset |-> "", src |-> "", title |-> <<>>,
     scale |-> Frac(0, 1), dims |-> NoDimensions, skip |-> FALSE, name |-> <<>>,
     userMarker |-> FALSE, assistantMarker |-> FALSE, index |-> 0,
     isUser |-> FALSE, warned |-> FALSE,
     complete |-> FALSE, signal |-> "", encodeOk |-> FALSE,
     imgResult |-> NoImageResult, awaited |-> FALSE, element |-> ImgElement(""),
     redone |-> FALSE, renamed |-> <<>>]

\* No processArticle call is followed.
NoArticle ==
    [source |-> <<>>, quality |-> "none", libs |-> [domPurify |-> FALSE,
     imagesJs |-> FALSE, hljs |-> FALSE], pc |-> "idle",
     clone |-> [content |-> <<>>, detached |-> TRUE], sanitizeInput |-> <<>>,
     sanitizeCalls |-> 0, sanitized |-> <<>>, cleaned |-> <<>>, tempDiv |-> <<>>,
     images |-> 0, imgIdx |-> 0, stats |-> ZeroStats, waits |-> 0, encodes |-> 0,
     stages |-> <<>>, returned |-> <<>>, error |-> ""]

Init ==
    /\ batch = BatchIdle
    /\ page \in Pages
    /\ runs = <<>>
    /\ running = 0
    /\ article = NoArticle
    /\ call = NoCall
    /\ popup = NewPopup

Next ==
    \/ Request
    \/ CheckPreconditions
    \/ BuildTemplate
    \/ LoopTest
    \/ ArticleSanitize
    \/ AllImagesBegin
    \/ ProcessImage
    \/ ImgLoad
    \/ ImgError
    \/ ArticleFinish
    \/ Assemble
    \/ Download

Spec == Init /\ [][Next]_vars

(***************************************************************************)
(* processArticle(article, imageQuality) stage by stage, on the markup of  *)
(* one turn.  A node is an element (tag, attributes, children) or a text   *)
(* node; an attribute value is its set of tokens.                          *)
(***************************************************************************)
Attr(name, value) == [name |-> name, value |-> value]

Element(tag, attrs, kids) ==
    [tag |-> tag, attrs |-> attrs, text |-> "", slot |-> 0, kids |-> kids]

Text(text) == [tag |-> "#text", attrs |-> {}, text |-> text, slot |-> 0, kids |-> <<>>]

HasAttr(node, name) == \E a \in node.attrs : a.name = name

AttrIs(node, name, value) == \E a \in node.attrs : a.name = name /\ a.value = value

\* The tokens of attribute `name`, {} when the element does not have it.
AttrValue(node, name) == UNION {a.value : a \in {b \in node.attrs : b.name = name}}

\* The nodes a turn of the page may hold: message text, a products widget, a
\* collapsed popover, screen-reader-only text, a button, a generated image in
\* its container (id="image-{uuid}") with its label and share button, uploaded
\* images with and without alt text, a code block, a link.
Para ==
    Element("p", {Attr("class", {"prose"}), Attr("data-start", {"0"})}, <<Text("Hello")>>)

Widget ==
    Element("div", {Attr("data-testid", {"products-widget"})}, <<Text("Shop now")>>)

Popover == Element("span", {Attr("data-state", {"closed"})}, <<Text("Tooltip")>>)

SrOnly == Element("span", {Attr("class", {"sr-only"})}, <<Text("ChatGPT said:")>>)

CopyButton == Element("button", {Attr("aria-label", {"Copy"})}, <<Text("Copy")>>)

Generated ==
    Element("div", {Attr("id", {"image-7f3a"})},
            << Element("img", {Attr("src", {"https://files.example/a.png"}),
                               Attr("alt", {"Generated image"}),
                               Attr("srcset", {"a.png 2x"}),
                               Attr("style", {"opacity:1"})}, <<>>),
               Element("span", {}, <<Text("Generated image")>>),
               Element("button", {}, <<Text("Share")>>) >>)

Upload ==
    Element("img", {Attr("src", {"https://files.example/b.png"}),
                    Attr("alt", {"diagram"}), Attr("width", {"640"})}, <<>>)

Icon == Element("img", {Attr("src", {"https://files.example/b.png"})}, <<>>)

CodeBlock ==
    Element("pre", {},
            << Element("code", {Attr("class", {"language-js"}), Attr("data-lang", {"js"})},
                       <<Text("let x")>>) >>)

Link ==
    Element("a", {Attr("href", {"https://example.org/"}), Attr("onclick", {"track()"}),
                  Attr("target", {"_blank"})}, <<Text("link")>>)

TurnNodes ==
    {Para, Widget, Popover, SrOnly, CopyButton, Generated, Upload, Icon, CodeBlock, Link}

TurnContents == UNION {[1..n -> TurnNodes] : n \in 0..MaxNodes}

\* SELECTORS: does the element match the selector of that name?
Matches(selector, node) ==
    CASE selector = "productsWidget" -> AttrIs(node, "data-testid", {"products-widget"})
      [] selector = "closedPopover" ->
            node.tag = "span" /\ AttrIs(node, "data-state", {"closed"})
      [] selector = "screenReaderOnly" -> AttrIs(node, "class", {"sr-only"})
      [] selector = "interactive" ->
            \/ node.tag = "button" /\ ~HasAttr(node, "disabled")
            \/ node.tag \in {"input", "select", "textarea"}
            \/ AttrIs(node, "role", {"button"})
      [] selector = "dalleImageContainer" ->
            node.tag = "div" /\ AttrIs(node, "id", {"image-7f3a"})
      [] OTHER -> FALSE

\* root.querySelectorAll(selector).forEach(el => el.remove()): the elements that
\* match go, with everything under them.
RECURSIVE RemoveAll(_, _)
RemoveAll(selector, nodes) ==
    IF nodes = <<>> THEN <<>>
    ELSE LET h == Head(nodes)
         IN  IF Matches(selector, h) THEN RemoveAll(selector, Tail(nodes))
             ELSE <<[h EXCEPT !.kids = RemoveAll(selector, h.kids)]>>
                      \o RemoveAll(selector, Tail(nodes))

\* The removals on the clone, in their order; the generation-image containers
\* go only when imageQuality is 'none'.
StructuralRemovalsKeepContainers(content, imageQuality) ==
    RemoveAll("interactive",
        RemoveAll("screenReaderOnly",
            RemoveAll("closedPopover", RemoveAll("productsWidget", content))))
StructuralRemovals(content, imageQuality) ==
    LET ui == RemoveAll("interactive",
                  RemoveAll("screenReaderOnly",
                      RemoveAll("closedPopover", RemoveAll("productsWidget", content))))
    IN  IF imageQuality = "none" THEN RemoveAll("dalleImageContainer", ui) ELSE ui

\* The policy handed to DOMPurify.sanitize.
ALLOWED_TAGS ==
    {"p", "code", "pre", "h1", "h2", "h3", "h4", "h5", "h6", "ul", "ol", "li",
     "strong", "em", "blockquote", "table", "thead", "tbody", "tr", "td", "th", "hr",
     "a", "br", "img"}

ALLOWED_ATTR == {"class", "href", "target", "rel", "src", "alt"}

\* The attributes outside ALLOWED_ATTR that the sanitizer may let through.
LeakSets == {{}, {"style"}, {"onclick", "data-start"}}

\* DOMPurify.sanitize(markup, {ALLOWED_TAGS, ALLOWED_ATTR}): an element whose tag
\* is allowed stays, with its allowed attributes (and the ones in `leak`); an
\* element whose tag is not allowed goes and its content, sanitized, takes its
\* place.
RECURSIVE SanitizeNodes(_, _)
KeptContentRaw(node, leak) == node.kids
KeptContent(node, leak) == SanitizeNodes(node.kids, leak)

SanitizeNodes(nodes, leak) ==
    IF nodes = <<>> THEN <<>>
    ELSE LET h == Head(nodes)
         IN  (IF h.tag = "#text" THEN <<h>>
              ELSE IF h.tag \in ALLOWED_TAGS
              THEN <<[h EXCEPT !.attrs = {a \in @ : a.name \in ALLOWED_ATTR \cup leak},
                               !.kids = SanitizeNodes(h.kids, leak)]>>
              ELSE KeptContent(h, leak)) \o SanitizeNodes(Tail(nodes), leak)

\* The attribute strip pass over tempDiv: every attribute whose name is not in
\* allowedAttrs is removed from every element.
KeptAttrsAll(element) == element.attrs
KeptAttrs(element) == {a \in element.attrs : a.name \in ALLOWED_ATTR}

RECURSIVE StripAttributes(_)
StripAttributes(nodes) ==
    IF nodes = <<>> THEN <<>>
    ELSE LET h == Head(nodes)
         IN  <<[h EXCEPT !.attrs = KeptAttrs(h), !.kids = StripAttributes(h.kids)]>>
                 \o StripAttributes(Tail(nodes))

\* The nodes of a fragment in document order.
RECURSIVE Flatten(_)
Flatten(nodes) ==
    IF nodes = <<>> THEN <<>>
    ELSE <<Head(nodes)>> \o Flatten(Head(nodes).kids) \o Flatten(Tail(nodes))

\* A page without a conversation: the state of the conversion part under SpecBatch.
NoPage ==
    [streaming |-> FALSE, hasMain |-> FALSE, articles |-> <<>>,
     domPurify |-> FALSE, imagesJs |-> FALSE, hljs |-> FALSE]

\* img.src, '' when the element has none.
SrcOf(img) ==
    IF AttrValue(img, "src") = {} THEN "" ELSE CHOOSE u \in AttrValue(img, "src") : TRUE

\* img.alt || '[Image removed]'
AltOr(img) ==
    IF AttrValue(img, "alt") = {} THEN "[Image removed]"
    ELSE CHOOSE t \in AttrValue(img, "alt") : TRUE

\* The attributes with `name` set to `value`.
WithAttr(attrs, name, value) == {a \in attrs : a.name # name} \cup {Attr(name, value)}

\* <span class="image-placeholder">alt text</span>
PlaceholderSpan(img) ==
    Element("span", {Attr("class", {"image-placeholder"})}, <<Text(AltOr(img))>>)

\* <span class="image-error">[Image could not be embedded -
\* <a href="fallbackUrl" target="_blank">view original</a>]</span>
ErrorSpan(fallbackUrl) ==
    Element("span", {Attr("class", {"image-error"})},
            << Text("[Image could not be embedded - "),
               Element("a", {Attr("href", {fallbackUrl}), Attr("target", {"_blank"})},
                       <<Text("view original")>>),
               Text("]") >>)

\* img.src = dataUrl; img.removeAttribute('srcset'); img.classList.add('exported-image')
EmbeddedImg(img, dataUrl) ==
    [img EXCEPT !.attrs =
        WithAttr(WithAttr({a \in @ : a.name # "srcset"}, "src", {dataUrl}),
                 "class", AttrValue(img, "class") \cup {"exported-image"})]

\* container.querySelectorAll('img'): the number of img elements, and the
\* fragment with its img elements numbered 1, 2, ... in document order (the
\* static list the loop of processAllImages walks).
RECURSIVE CountImgs(_)
CountImgs(nodes) ==
    IF nodes = <<>> THEN 0
    ELSE (IF Head(nodes).tag = "img" THEN 1 ELSE 0)
             + CountImgs(Head(nodes).kids) + CountImgs(Tail(nodes))

RECURSIVE NumberImgs(_, _)
NumberImgs(nodes, before) ==
    IF nodes = <<>> THEN <<>>
    ELSE LET h == Head(nodes)
             self == IF h.tag = "img" THEN 1 ELSE 0
         IN  <<[h EXCEPT !.slot = IF h.tag = "img" THEN before + 1 ELSE 0,
                         !.kids = NumberImgs(h.kids, before + self)]>>
                 \o NumberImgs(Tail(nodes), before + self + CountImgs(h.kids))

\* The img element numbered k.
ImgOfSlot(nodes, k) == SelectSeq(Flatten(nodes), LAMBDA n : n.slot = k)[1]

\* img.replaceWith(node) / the update of the img numbered k.
RECURSIVE ReplaceSlot(_, _, _)
ReplaceSlot(nodes, k, node) ==
    IF nodes = <<>> THEN <<>>
    ELSE LET h == Head(nodes)
         IN  (IF h.slot = k THEN <<node>>
              ELSE <<[h EXCEPT !.kids = ReplaceSlot(h.kids, k, node)]>>)
                 \o ReplaceSlot(Tail(nodes), k, node)

\* The 'none' branch of processAllImages: every img is replaced by its placeholder.
RECURSIVE ReplaceImgs(_)
ReplaceImgs(nodes) ==
    IF nodes = <<>> THEN <<>>
    ELSE LET h == Head(nodes)
         IN  (IF h.tag = "img" THEN <<PlaceholderSpan(h)>>
              ELSE <<[h EXCEPT !.kids = ReplaceImgs(h.kids)]>>)
                 \o ReplaceImgs(Tail(nodes))

\* processImage(img, preset) from entry to result; `signal` is what an image
\* that was not loaded yet signals in the end (load or error).
ProcessImageResultLoadFirst(src, reading, signal, encodeOk) ==
    IF ~AlreadyLoaded(reading) /\ signal = "error"
    THEN ImageError("Image failed to load", src)
    ELSE IF ShouldSkipImage(src, reading.w, reading.h) THEN ImageSkipped(src)
    ELSE EncodeResult(src, encodeOk)
ProcessImageResult(src, reading, signal, encodeOk) ==
    IF ShouldSkipImage(src, reading.w, reading.h) THEN ImageSkipped(src)
    ELSE IF ~AlreadyLoaded(reading) /\ signal = "error"
    THEN ImageError("Image failed to load", src)
    ELSE EncodeResult(src, encodeOk)

\* processImage gets to `await waitForLoad(img)`: the image was not skipped.
ReachesLoadWait(src, reading) == ~ShouldSkipImage(src, reading.w, reading.h)

\* The loop body of processAllImages on the fragment of the processArticle call.
ApplyToFragment(art, result) ==
    IF result.skipped
    THEN [art EXCEPT !.stats.skipped = @ + 1, !.imgIdx = @ + 1]
    ELSE IF result.success
    THEN [art EXCEPT !.tempDiv = ReplaceSlot(@, art.imgIdx,
                                     EmbeddedImg(ImgOfSlot(art.tempDiv, art.imgIdx),
                                                 result.dataUrl)),
                     !.stats.processed = @ + 1, !.imgIdx = @ + 1]
    ELSE [art EXCEPT !.tempDiv = ReplaceSlot(@, art.imgIdx, ErrorSpan(result.fallbackUrl)),
                     !.stats.failed = @ + 1, !.imgIdx = @ + 1]

\* SELECTORS.codeBlocks: 'pre code, code[class*="language-"]'
IsCodeBlock(node, inPre) ==
    /\ node.tag = "code"
    /\ inPre \/ \E t \in AttrValue(node, "class") : t \in {"language-js"}

\* What hljs.highlightElement may leave on the code element besides classes.
HighlighterMarks == {{}, {Attr("data-highlighted", {"yes"})}}

\* code.classList.add('code-block'); hljs.highlightElement(code) when hljs is
\* loaded: the highlighter classes the element and wraps its text in spans.
Highlighted(code, hljs, marks) ==
    LET classed == [code EXCEPT !.attrs = WithAttr(@, "class",
                                     AttrValue(code, "class") \cup {"code-block"})]
    IN  IF hljs
        THEN [classed EXCEPT
                 !.attrs = WithAttr(@, "class", AttrValue(classed, "class") \cup {"hljs"})
                               \cup marks,
                 !.kids = <<Element("span", {Attr("class", {"hljs-keyword"})}, code.kids)>>]
        ELSE classed

RECURSIVE HighlightNodes(_, _, _, _)
HighlightNodes(nodes, inPre, hljs, marks) ==
    IF nodes = <<>> THEN <<>>
    ELSE LET h == Head(nodes)
         IN  <<IF IsCodeBlock(h, inPre) THEN Highlighted(h, hljs, marks)
               ELSE [h EXCEPT !.kids = HighlightNodes(h.kids, inPre \/ h.tag = "pre",
                                                      hljs, marks)]>>
                 \o HighlightNodes(Tail(nodes), inPre, hljs, marks)

\* The pre clean-up: a pre that holds a code element keeps only that element.
RECURSIVE CleanPre(_)
CleanPre(nodes) ==
    IF nodes = <<>> THEN <<>>
    ELSE LET h == Head(nodes)
             codes == SelectSeq(Flatten(h.kids), LAMBDA n : n.tag = "code")
         IN  <<IF h.tag = "pre" /\ codes # <<>> THEN [h EXCEPT !.kids = <<codes[1]>>]
               ELSE [h EXCEPT !.kids = CleanPre(h.kids)]>>
                 \o CleanPre(Tail(nodes))

\* const clone = article.cloneNode(true): a deep copy, detached from the page.
CloneNodeAlias(content) == [content |-> content, detached |-> FALSE]
CloneNode(content) == [content |-> content, detached |-> TRUE]

\* The order of the stages of processArticle.
StageAfterSanitizeFirst(stage) ==
    CASE stage = "enter" -> "sanitize"
      [] stage = "sanitize" -> "remove"
      [] stage = "remove" -> "strip"
      [] stage = "strip" -> "images"
      [] stage = "images" -> "highlight"
      [] stage = "highlight" -> "returned"
StageAfter(stage) ==
    CASE stage = "enter" -> "remove"
      [] stage = "remove" -> "sanitize"
      [] stage = "sanitize" -> "strip"
      [] stage = "strip" -> "images"
      [] stage = "images" -> "highlight"
      [] stage = "highlight" -> "returned"

\* processArticle(article, imageQuality) is called on a turn of the page.
NewArticle(content, imageQuality, libs) ==
    [NoArticle EXCEPT !.source = content, !.quality = imageQuality, !.libs = libs,
                      !.pc = "enter"]

\* The DOMPurify check, tempDiv, the clone.
EnterArticle ==
    /\ article.pc = "enter"
    /\ article' = IF ~article.libs.domPurify
                  THEN [article EXCEPT !.pc = "thrown",
                          !.error = "DOMPurify library not loaded. Try refreshing the page."]
                  ELSE [article EXCEPT !.clone = CloneNode(article.source),
                                       !.pc = StageAfter("enter")]
    /\ UNCHANGED <<batch, page, runs, running, call, popup>>

\* The removals of UI elements; they act on the element `clone` refers to.
RemoveUiElements ==
    /\ article.pc = "remove"
    /\ LET content == StructuralRemovals(article.clone.content, article.quality)
       IN  article' = [article EXCEPT
                          !.clone.content = content,
                          !.source = IF article.clone.detached THEN @ ELSE content,
                          !.stages = Append(@, "remove"),
                          !.pc = StageAfter("remove")]
    /\ UNCHANGED <<batch, page, runs, running, call, popup>>

\* tempDiv.innerHTML = DOMPurify.sanitize(clone.innerHTML, policy)
SanitizeClone ==
    /\ article.pc = "sanitize"
    /\ \E leak \in LeakSets :
          article' = [article EXCEPT
                         !.sanitizeInput = article.clone.content,
                         !.sanitizeCalls = @ + 1,
                         !.sanitized = SanitizeNodes(article.clone.content, leak),
                         !.tempDiv = SanitizeNodes(article.clone.content, leak),
                         !.stages = Append(@, "sanitize"),
                         !.pc = StageAfter("sanitize")]
    /\ UNCHANGED <<batch, page, runs, running, call, popup>>

\* The attribute strip pass over tempDiv.
StripPass ==
    /\ article.pc = "strip"
    /\ article' = [article EXCEPT !.tempDiv = StripAttributes(@),
                                  !.cleaned = StripAttributes(article.tempDiv),
                                  !.stages = Append(@, "strip"),
                                  !.pc = StageAfter("strip")]
    /\ UNCHANGED <<batch, page, runs, running, call, popup>>

\* if (typeof processAllImages !== 'undefined') await processAllImages(tempDiv,
\* imageQuality): the entry of processAllImages and its 'none' branch.
ImagesBegin ==
    /\ article.pc = "images"
    /\ article' =
          IF ~article.libs.imagesJs
          THEN [article EXCEPT !.pc = StageAfter("images")]
          ELSE IF article.quality = "none" \/ ~PresetRecognized(article.quality)
          THEN [article EXCEPT !.tempDiv = ReplaceImgs(@),
                               !.images = CountImgs(article.tempDiv),
                               !.stats = [ZeroStats EXCEPT
                                             !.skipped = CountImgs(article.tempDiv)],
                               !.stages = Append(@, "images"),
                               !.pc = StageAfter("images")]
          ELSE [article EXCEPT !.tempDiv = NumberImgs(@, 0),
                               !.images = CountImgs(article.tempDiv),
                               !.stats = ZeroStats, !.imgIdx = 1,
                               !.stages = Append(@, "images"),
                               !.pc = "image"]
    /\ UNCHANGED <<batch, page, runs, running, call, popup>>

\* for (const img of images) { const result = await processImage(img, preset) ... }
ImageStep ==
    /\ article.pc = "image"
    /\ IF article.imgIdx > article.images
       THEN article' = [article EXCEPT !.pc = StageAfter("images")]
       ELSE \E reading \in ImgReadings, signal \in {"load", "error"}, encodeOk \in BOOLEAN :
               LET src == SrcOf(ImgOfSlot(article.tempDiv, article.imgIdx))
                   skip == ShouldSkipImage(src, reading.w, reading.h)
                   waited == ~skip /\ ~AlreadyLoaded(reading)
                   encoded == ~skip /\ ~(waited /\ signal = "error")
               IN  article' =
                      [ApplyToFragment(article,
                           ProcessImageResult(src, reading, signal, encodeOk))
                         EXCEPT !.waits = @ + (IF waited THEN 1 ELSE 0),
                                !.encodes = @ + (IF encoded THEN 1 ELSE 0)]
    /\ UNCHANGED <<batch, page, runs, running, call, popup>>

\* Highlighting of the code blocks, the pre clean-up, return tempDiv.innerHTML.
HighlightCode ==
    /\ article.pc = "highlight"
    /\ \E marks \in HighlighterMarks :
          LET fragment == CleanPre(HighlightNodes(article.tempDiv, FALSE,
                                                  article.libs.hljs, marks))
          IN  article' = [article EXCEPT !.tempDiv = fragment, !.returned = fragment,
                                         !.stages = Append(@, "highlight"),
                                         !.pc = StageAfter("highlight")]
    /\ UNCHANGED <<batch, page, runs, running, call, popup>>

InitClean ==
    /\ batch = BatchIdle
    /\ page = NoPage
    /\ runs = <<>>
    /\ running = 0
    /\ article \in {NewArticle(content, q, libs) :
                       content \in TurnContents, q \in RequestQualities, libs \in LibSets}
    /\ call = NoCall
    /\ popup = NewPopup

NextClean ==
    \/ EnterArticle
    \/ RemoveUiElements
    \/ SanitizeClone
    \/ StripPass
    \/ ImagesBegin
    \/ ImageStep
    \/ HighlightCode

SpecClean == InitClean /\ [][NextClean]_vars

(***************************************************************************)
(* Claims about the conversion run (checked under Spec).                   *)
(***************************************************************************)

\* The message parts of htmlParts, by position: part k + 1 is the fragment of turn k.
FragmentOfTurn(run, k) == run.htmlParts[k + 1]

\* C5: within a run the turns are processed one at a time in turn order:
\* processArticle is started for turns 1, 2, ... in that order, the fragment of
\* every earlier turn is already in htmlParts when a turn is started, and at no
\* moment are two turns of the run in flight.
C5_TurnsOneAtATime ==
    \A r \in 1..Len(runs) :
        LET run == runs[r]
        IN  /\ Cardinality(run.inFlight) <= 1
            /\ \A k \in 1..Len(run.started) : run.started[k] = k
            /\ run.inFlight \subseteq {Len(run.started)}
            /\ \A k \in 1..(Len(run.started) - 1) :
                  /\ Len(run.htmlParts) >= k + 1
                  /\ FragmentOfTurn(run, k).kind = "message"
                  /\ FragmentOfTurn(run, k).turn = k

\* The run is suspended on an image of turn 2, turn 1 being complete.
C5_Witness ==
    \E r \in 1..Len(runs) :
        /\ runs[r].pc = "waitload"
        /\ runs[r].started = <<1, 2>>
        /\ runs[r].inFlight = {2}

\* C6: when the page is streaming at the start of convertToHTML, the run
\* resolves to {success: false, isStreaming: true, error} and produces nothing:
\* no turn is processed, nothing is assembled, no download is triggered.
C6_StreamingRefused ==
    page.streaming =>
        \A r \in 1..Len(runs) :
            LET run == runs[r]
            IN  /\ run.pc \in {"start", "done"}
                /\ run.started = <<>>
                /\ run.htmlParts = <<>>
                /\ run.joined = 0
                /\ run.downloads = 0
                /\ run.pc = "done" =>
                      /\ run.result.settled = "resolved"
                      /\ ~run.result.success
                      /\ run.result.isStreaming
                      /\ run.result.error # ""

\* A run on a streaming page that holds a conversation has returned.
C6_Witness ==
    \E r \in 1..Len(runs) :
        /\ page.streaming
        /\ page.domPurify
        /\ Len(page.articles) = 2
        /\ runs[r].pc = "done"

\* C7: with DOMPurify absent the run resolves to {success: false, error} and
\* nothing is produced: no fragment of a turn is emitted, nothing is joined, no
\* download happens; a run that gets as far as its first turn fails there with
\* the "DOMPurify library not loaded" message.  No run ever emits a fragment
\* that was not sanitized.
C7_SanitizerMandatory ==
    \A r \in 1..Len(runs) :
        LET run == runs[r]
        IN  /\ \A k \in 1..Len(run.htmlParts) : run.htmlParts[k].sanitized
            /\ ~page.domPurify =>
                  /\ run.joined = 0
                  /\ run.downloads = 0
                  /\ \A k \in 1..Len(run.htmlParts) : run.htmlParts[k].kind # "message"
                  /\ run.pc = "done" =>
                        /\ run.result.settled = "resolved"
                        /\ ~run.result.success
                        /\ run.result.error # ""
                  /\ (run.pc = "done" /\ run.started # <<>>) =>
                        /\ run.started = <<1>>
                        /\ run.result.error =
                               "DOMPurify library not loaded. Try refreshing the page."

\* A run over two turns has failed at its first turn for want of DOMPurify.
C7_Witness ==
    \E r \in 1..Len(runs) :
        /\ ~page.domPurify
        /\ Len(page.articles) = 2
        /\ runs[r].pc = "done"
        /\ runs[r].faultAt = "sanitizer"

\* C8: with no conversation container, or a container without turns, the run
\* processes no turn, assembles nothing, triggers no download and resolves
\* (never rejects) to {success: false, error}.
C8_PreconditionFailure ==
    (~page.hasMain \/ Len(page.articles) = 0) =>
        \A r \in 1..Len(runs) :
            LET run == runs[r]
            IN  /\ run.pc \in {"start", "done"}
                /\ run.started = <<>>
                /\ run.htmlParts = <<>>
                /\ run.joined = 0
                /\ run.downloads = 0
                /\ run.result.settled # "rejected"
                /\ run.pc = "done" =>
                      /\ run.result.settled = "resolved"
                      /\ ~run.result.success
                      /\ run.result.error # ""

\* A run on a page whose container holds no turn has returned.
C8_Witness ==
    \E r \in 1..Len(runs) :
        /\ ~page.streaming
        /\ page.hasMain
        /\ page.domPurify
        /\ Len(page.articles) = 0
        /\ runs[r].pc = "done"

\* C9: convertToHTML never rejects: a fault raised in any stage ends the run
\* with the resolved result {success: false, error}, the shape of a
\* precondition failure, and a run has returned exactly when it has resolved.
C9_NeverRejects ==
    \A r \in 1..Len(runs) :
        LET run == runs[r]
        IN  /\ run.result.settled # "rejected"
            /\ (run.pc = "done") <=> (run.result.settled = "resolved")
            /\ run.faultAt # "none" =>
                  /\ run.pc = "done"
                  /\ run.result.settled = "resolved"
                  /\ ~run.result.success
                  /\ ~run.result.isStreaming
                  /\ run.result.error # ""
                  /\ run.downloads = 0

\* A fault in the last stage, the download, has been caught.
C9_Witness ==
    \E r \in 1..Len(runs) :
        /\ runs[r].faultAt = "download"
        /\ runs[r].pc = "done"
        /\ runs[r].joined = 1

\* Number of error markers in a fragment.
ErrorMarkers(fragment) ==
    Cardinality({k \in 1..Len(fragment) : fragment[k].form = "error"})

\* C10: a failing image never aborts the run.  The image is replaced by an
\* error marker linking to its original source and counted in stats.failed,
\* the loop goes on to the images after it (all images of the fragment have been
\* visited when processAllImages returns), a run in which images failed ends in
\* failure only on a fault of another stage, and a successful run holds the
\* fragment of every turn.
C10_ImageFailureIsLocal ==
    \A r \in 1..Len(runs) :
        LET run == runs[r]
        IN  /\ (run.pc = "done" /\ run.imagesFailed > 0 /\ ~run.result.success) =>
                  run.faultAt \in {"article", "assembly", "download"}
            /\ run.pc \in {"images", "waitload", "highlight"} =>
                  run.stats.failed = ErrorMarkers(run.tempDiv)
            /\ (run.pc = "images" /\ run.imgResult.kind = "error" /\ run.imgIdx > 1) =>
                  /\ run.tempDiv[run.imgIdx - 1].form = "error"
                  /\ run.tempDiv[run.imgIdx - 1].href = run.imgResult.originalSrc
                  /\ run.imgResult.originalSrc \in UrlSources
            /\ (run.pc = "highlight" /\ page.imagesJs) =>
                  run.stats.processed + run.stats.failed + run.stats.skipped
                      = Len(run.tempDiv)
            /\ (run.pc = "done" /\ run.result.success) =>
                  /\ Len(run.htmlParts) = Len(page.articles) + 2
                  /\ \A k \in 1..Len(page.articles) :
                        /\ FragmentOfTurn(run, k).kind = "message"
                        /\ FragmentOfTurn(run, k).turn = k
                        /\ Len(FragmentOfTurn(run, k).content)
                               = Len(page.articles[k].imgs)

\* A run has succeeded although the first image of its first turn failed; the
\* image after it was embedded and the turn after it was processed.
C10_Witness ==
    \E r \in 1..Len(runs) :
        /\ runs[r].pc = "done"
        /\ runs[r].result.success
        /\ runs[r].imagesFailed >= 1
        /\ Len(page.articles) = 2
        /\ Len(runs[r].htmlParts) = 4
        /\ Len(FragmentOfTurn(runs[r], 1).content) = 2
        /\ FragmentOfTurn(runs[r], 1).content[1].form = "error"
        /\ FragmentOfTurn(runs[r], 1).content[2].exported

(***************************************************************************)
(* Claims about processImage and processAllImages (checked under Spec).    *)
(***************************************************************************)

\* The source, as the page holds it, of image k of the turn the run works on.
SourceOf(run, k) == page.articles[run.index + 1].imgs[k]

\* Number of images of the fragment that have an outcome.
Settled(run) == run.stats.processed + run.stats.failed + run.stats.skipped

\* C11: processImage takes an image from pending to exactly one of the
\* outcomes skipped, embedded, failed and never throws: every image the loop
\* has passed is counted under exactly one outcome, the image being awaited
\* under none, and the result has the shape of its outcome.  A failed result
\* (encode failure included) carries a reason and the original source, which
\* is also its fallbackUrl.
C11_OneTerminalOutcome ==
    \A r \in 1..Len(runs) :
        LET run == runs[r]
            res == run.imgResult
        IN  /\ res.kind \in {"none", "skipped", "success", "error"}
            /\ run.pc \in {"images", "waitload"} => Settled(run) = run.imgIdx - 1
            /\ (run.pc = "images" /\ run.imgIdx > 1) =>
                  LET src == SourceOf(run, run.imgIdx - 1)
                  IN  /\ res.kind \in {"skipped", "success", "error"}
                      /\ res.kind = "skipped" <=> res.skipped
                      /\ res.kind = "success" <=> (res.success /\ ~res.skipped)
                      /\ res.kind = "error" <=> ~res.success
                      /\ res.kind = "skipped" => res.dataUrl = src
                      /\ res.kind = "success" =>
                            /\ res.dataUrl \in DataSources
                            /\ res.originalSrc = src
                      /\ res.kind = "error" =>
                            /\ res.error # ""
                            /\ res.originalSrc = src
                            /\ res.fallbackUrl = src

\* The encode of the second image of a turn has failed and processImage has
\* returned the failed result.
C11_Witness ==
    \E r \in 1..Len(runs) :
        /\ runs[r].pc = "images"
        /\ runs[r].imgIdx = 3
        /\ runs[r].imgResult.kind = "error"
        /\ runs[r].imgResult.error = "The operation is insecure."
        /\ runs[r].imgResult.fallbackUrl = "https://files.example/b.png"

\* C12: processImage waits for the load of an image that is not skipped: the
\* run is suspended on an image only when the image was not loaded already
\* (an image that is complete with a natural width resolves at once), the
\* image is untouched while it is awaited, and a load error ends in the failed
\* outcome with the reason "Image failed to load" and the original source as
\* the link of the error marker.
C12_AwaitsLoad ==
    \A r \in 1..Len(runs) :
        LET run == runs[r]
        IN  /\ run.pc = "waitload" =>
                  /\ run.imgIdx \in 1..Len(run.tempDiv)
                  /\ ~(run.awaited.complete /\ run.awaited.w > 0)
                  /\ run.tempDiv[run.imgIdx] = ImgElement(SourceOf(run, run.imgIdx))
                  /\ running # r
            /\ (run.pc = "images" /\ run.imgIdx > 1
                  /\ run.imgResult.error = "Image failed to load") =>
                  /\ run.imgResult.kind = "error"
                  /\ run.imgResult.fallbackUrl = SourceOf(run, run.imgIdx - 1)
                  /\ run.tempDiv[run.imgIdx - 1].form = "error"
                  /\ run.tempDiv[run.imgIdx - 1].href = SourceOf(run, run.imgIdx - 1)

\* An awaited image has signalled a load error.
C12_Witness ==
    \E r \in 1..Len(runs) :
        /\ runs[r].pc = "images"
        /\ runs[r].imgIdx = 2
        /\ runs[r].imgResult.error = "Image failed to load"
        /\ runs[r].tempDiv[1].form = "error"

\* Number of img elements among the first n of the fragment that are as the
\* sanitizer left them.
Untouched(run, n) ==
    Cardinality({k \in 1..n : run.tempDiv[k] = ImgElement(SourceOf(run, k))})

\* C13: the skip policy is evaluated before the load wait and the encode: an
\* image the policy skips (data URL, natural width or height under
\* MIN_IMAGE_SIZE) is never awaited, and a skipped image is left as it was:
\* same element, same source, no class added, no replacement.
C13_SkipBeforeLoad ==
    \A r \in 1..Len(runs) :
        LET run == runs[r]
        IN  /\ run.pc = "waitload" =>
                  /\ SourceOf(run, run.imgIdx) \notin DataSources
                  /\ run.awaited.w >= MIN_IMAGE_SIZE
                  /\ run.awaited.h >= MIN_IMAGE_SIZE
            /\ (run.pc = "images" /\ run.imgIdx > 1 /\ run.imgResult.kind = "skipped") =>
                  /\ run.tempDiv[run.imgIdx - 1] = ImgElement(SourceOf(run, run.imgIdx - 1))
                  /\ run.imgResult.dataUrl = SourceOf(run, run.imgIdx - 1)
            /\ run.pc \in {"images", "waitload"} =>
                  run.stats.skipped = Untouched(run, run.imgIdx - 1)

\* A remote image was skipped and the image after it embedded.
C13_Witness ==
    \E r \in 1..Len(runs) :
        /\ runs[r].pc = "images"
        /\ runs[r].imgIdx = 3
        /\ runs[r].stats.skipped = 1
        /\ runs[r].tempDiv[1] = ImgElement("https://files.example/a.png")
        /\ runs[r].tempDiv[2].exported


\* C14 as stated: once processAllImages has returned, every image of the
\* fragment is an embedded data URL, a placeholder, or an error marker that
\* links to the original source.
C14_ThreeForms ==
    \A r \in 1..Len(runs) :
        LET run == runs[r]
        IN  (run.pc = "highlight" /\ page.imagesJs) =>
                \A k \in 1..Len(run.tempDiv) :
                    LET el == run.tempDiv[k]
                    IN  \/ el.form = "img" /\ el.src \in DataSources
                        \/ el.form = "placeholder"
                        \/ el.form = "error" /\ el.href = SourceOf(run, k)

\* C14, amended: once processAllImages has returned, every image of the
\* fragment is in one of four forms: an img whose src is a data URL (encoded by
\* the run, or a data URL from the start), a placeholder (quality none or a
\* preset that is not recognised), an error marker that links to the original
\* source, or the original img left as it was, with its remote source, because
\* the skip policy passed it over; the images left as they were are the ones
\* counted in stats.skipped.
C14_ImageForms ==
    \A r \in 1..Len(runs) :
        LET run == runs[r]
        IN  (run.pc = "highlight" /\ page.imagesJs) =>
                /\ \A k \in 1..Len(run.tempDiv) :
                      LET el == run.tempDiv[k]
                      IN  \/ el.form = "img" /\ el.src \in DataSources
                          \/ /\ el.form = "placeholder"
                             /\ (run.quality = "none" \/ ~PresetRecognized(run.quality))
                          \/ el.form = "error" /\ el.href = SourceOf(run, k)
                          \/ /\ el = ImgElement(SourceOf(run, k))
                             /\ PresetRecognized(run.quality)
                /\ PresetRecognized(run.quality) =>
                      run.stats.skipped = Untouched(run, Len(run.tempDiv))

\* processAllImages has returned under a recognised preset and left a remote
\* image as it was.
C14_Witness ==
    \E r \in 1..Len(runs) :
        /\ runs[r].pc = "highlight"
        /\ page.imagesJs
        /\ runs[r].quality = "medium"
        /\ Len(runs[r].tempDiv) = 2
        /\ runs[r].tempDiv[1] = ImgElement("https://files.example/a.png")
        /\ runs[r].stats.skipped = 1

\* C15: with imageQuality 'include' the preset is {maxWidth 800, maxHeight 600,
\* quality 0.85} and no image of the fragment is replaced by a placeholder.
C15_IncludeEmbeds ==
    \A r \in 1..Len(runs) :
        LET run == runs[r]
        IN  (run.quality = "include" /\ page.imagesJs /\ run.pc = "highlight"
               /\ Len(run.tempDiv) > 0) =>
                /\ ImagePreset(run.quality) =
                       [maxWidth |-> 800, maxHeight |-> 600, quality |-> 85]
                /\ \A k \in 1..Len(run.tempDiv) : run.tempDiv[k].form # "placeholder"

\* The style class of turn k of the page: the explicit marker of the turn, or
\* the parity of its position (first turn user) when it has none.
ClassOfTurn(k) ==
    IF page.articles[k].role = "user" THEN "user-message"
    ELSE IF page.articles[k].role = "assistant" THEN "assistant-message"
    ELSE IF (k - 1) % 2 = 0 THEN "user-message" ELSE "assistant-message"

\* C21: the document is the header template, then one wrapped fragment per
\* turn in turn order (fragment k comes from turn k and carries the class
\* derived for turn k), then the footer; at every point of the run htmlParts is
\* a prefix of this sequence, and what is joined is the whole of it.
C21_AssemblyOrder ==
    \A r \in 1..Len(runs) :
        LET run == runs[r]
            n == Len(page.articles)
            parts == run.htmlParts
        IN  /\ Len(parts) <= n + 2
            /\ \A k \in 1..Len(parts) :
                  IF k = 1 THEN parts[k].kind = "template"
                  ELSE IF k = n + 2 THEN parts[k].kind = "footer"
                  ELSE /\ parts[k].kind = "message"
                       /\ parts[k].turn = k - 1
                       /\ parts[k].class = ClassOfTurn(k - 1)
                       /\ Len(parts[k].content) = Len(page.articles[k - 1].imgs)
            /\ run.joined > 0 =>
                  /\ Len(parts) = n + 2
                  /\ run.htmlContent = parts

\* A document of two turns without role markers has been joined.
C21_Witness ==
    \E r \in 1..Len(runs) :
        /\ runs[r].joined = 1
        /\ Len(page.articles) = 2
        /\ page.articles[1].role = "none"
        /\ page.articles[2].role = "none"
        /\ Len(runs[r].htmlContent) = 4

\* C22: per run the document is joined and handed to the download at most
\* once: exactly once when the run returns success: true, no download when
\* it returns success: false; nothing is appended after the join.
C22_FinalizedOnce ==
    \A r \in 1..Len(runs) :
        LET run == runs[r]
        IN  /\ run.joined <= 1
            /\ run.downloads <= 1
            /\ run.downloads = 1 => run.joined = 1
            /\ (run.pc = "done" /\ run.result.success) =>
                  /\ run.joined = 1
                  /\ run.downloads = 1
            /\ (run.pc = "done" /\ ~run.result.success) => run.downloads = 0
            /\ run.joined = 1 =>
                  /\ run.pc \in {"download", "done"}
                  /\ run.htmlParts = run.htmlContent

\* A run has failed in its download stage, after the join.
C22_Witness ==
    \E r \in 1..Len(runs) :
        /\ runs[r].pc = "done"
        /\ runs[r].faultAt = "download"
        /\ runs[r].joined = 1
        /\ runs[r].downloads = 0

(***************************************************************************)
(* Several requests to one page.  The listener calls convertToHTML for     *)
(* every convert_to_html message it receives; the only guard,              *)
(* exportInProgress, lives in the popup script and starts false in every   *)
(* popup that is opened, so a request can arrive while a run is suspended. *)
(***************************************************************************)
RequestAny ==
    /\ running = 0
    /\ Len(runs) < MaxRuns
    /\ \E q \in RequestQualities :
          /\ runs' = Append(runs, NewRun(q))
          /\ running' = Len(runs) + 1
    /\ UNCHANGED <<batch, page, article, call, popup>>

\* Pages that hold a conversation of one turn.
RunPages ==
    {MakePage(s, l, TRUE, a) : s \in BOOLEAN, l \in LibSets, a \in [1..1 -> Turns]}

InitRuns ==
    /\ batch = BatchIdle
    /\ page \in RunPages
    /\ runs = <<>>
    /\ running = 0
    /\ article = NoArticle
    /\ call = NoCall
    /\ popup = NewPopup

NextRuns ==
    \/ RequestAny
    \/ CheckPreconditions
    \/ BuildTemplate
    \/ LoopTest
    \/ ArticleSanitize
    \/ AllImagesBegin
    \/ ProcessImage
    \/ ImgLoad
    \/ ImgError
    \/ ArticleFinish
    \/ Assemble
    \/ Download

SpecRuns == InitRuns /\ [][NextRuns]_vars

\* C23: conversion runs on one page never overlap: at most one run is in
\* progress (started and not yet returned) at any time.
C23_NoOverlap ==
    Cardinality({r \in 1..Len(runs) : runs[r].pc # "done"}) <= 1

(***************************************************************************)
(* Long conversations.  The turn loop of convertToHTML is a plain for loop *)
(* that awaits processArticle for each article in turn; a run is suspended *)
(* only while an image of the article is awaited.  The steps of a started  *)
(* run are taken by the script engine until the run suspends or returns,   *)
(* and an awaited image signals load or error: both are weakly fair.       *)
(***************************************************************************)
\* A conversation of n turns without images, user and assistant alternating.
LongTurns(n) ==
    [k \in 1..n |-> [role |-> IF k % 2 = 1 THEN "user" ELSE "assistant", imgs |-> <<>>]]

LongPages ==
    {MakePage(FALSE, l, TRUE, LongTurns(n)) : l \in LibSets, n \in 1..MaxLongTurns}

InitLong ==
    /\ batch = BatchIdle
    /\ page \in LongPages \cup RunPages
    /\ runs = <<>>
    /\ running = 0
    /\ article = NoArticle
    /\ call = NoCall
    /\ popup = NewPopup

\* The synchronous steps of a run.
RunStep ==
    \/ CheckPreconditions
    \/ BuildTemplate
    \/ LoopTest
    \/ ArticleSanitize
    \/ AllImagesBegin
    \/ ProcessImage
    \/ ArticleFinish
    \/ Assemble
    \/ Download

\* The signal of an awaited image.
ImgSignal == ImgLoad \/ ImgError

NextLong == Request \/ RunStep \/ ImgSignal

SpecLong == InitLong /\ [][NextLong]_vars /\ WF_vars(RunStep) /\ WF_vars(ImgSignal)

\* The run is at the first test of the turn loop of a conversation of more than
\* ten turns, none of which holds an image.
LongRunAtFirstTurn ==
    /\ Len(runs) = 1
    /\ Len(page.articles) > 10
    /\ \A k \in 1..Len(page.articles) : page.articles[k].imgs = <<>>
    /\ runs[1].pc = "loop"
    /\ runs[1].index = 0

\* The run has given control back to the event loop before returning.
RunSuspended == Len(runs) = 1 /\ running = 0 /\ runs[1].pc # "done"

\* The run returned a failure.
RunFailed == Len(runs) = 1 /\ runs[1].pc = "done" /\ ~runs[1].result.success

\* C24: a run over more than ten turns without images yields between its first
\* and its last turn: from the first test of the turn loop it reaches a
\* suspension point (or fails) before it returns.
C24_YieldsBetweenChunks == LongRunAtFirstTurn ~> (RunSuspended \/ RunFailed)

\* C32: every started run eventually returns a result, given that an awaited
\* image eventually signals load or error; a run that is not executing and has
\* not returned is waiting for an image whose load is still pending.
C32_RunReturns ==
    /\ [](\A r \in 1..Len(runs) :
            (running # r /\ runs[r].pc # "done") =>
                (runs[r].pc = "waitload" /\ ~runs[r].awaited.complete))
    /\ (Len(runs) = 1) ~> (Len(runs) = 1 /\ runs[1].pc = "done")

\* A run that waited for an image has returned its result.
C32_Witness ==
    /\ Len(runs) = 1
    /\ runs[1].pc = "done"
    /\ runs[1].result.success
    /\ runs[1].stats.failed > 0
    /\ runs[1].imgResult.error = "Image failed to load"

(***************************************************************************)
(* The helper functions, one call each: the arguments are drawn at the     *)
(* start, the action of the function applies it and records the result.    *)
(***************************************************************************)
\* Natural sizes of an image: around the icon threshold, around the limits of
\* the presets, beyond them, and the side of a very long strip.
SampleSizes ==
    {1, 49, 50, 51, 375, 400, 500, 600, 601, 800, 801, 900, 1000, 1200, 1500, 1501,
     1600, 2000, 40000}

\* maxWidth and maxHeight: the limits of the presets.
SampleLimits ==
    UNION {{ImagePreset(p).maxWidth, ImagePreset(p).maxHeight} : p \in {"high", "medium", "low"}}

\* Preset names: those of IMAGE_PRESETS, the value the popup sends to keep the
\* images, and a name nobody defines.
SamplePresets == {"high", "medium", "low", "none", "include", "ultra"}

\* The characters of a title: a letter, a space, an unsafe character, a hyphen,
\* the ligature fi and the fullwidth colon.
TitleChars == {"a", " ", "/", "-", "U+FB01", "U+FF1A"}

Titles == UNION {[1..n -> TitleChars] : n \in 0..MaxTitle}

PureCalls ==
    {[NoCall EXCEPT !.fn = "calculateScale", !.width = w, !.height = h,
                    !.maxWidth = mw, !.maxHeight = mh] :
         w \in SampleSizes, h \in SampleSizes, mw \in SampleLimits, mh \in SampleLimits}
    \cup {[NoCall EXCEPT !.fn = "getScaledDimensions", !.width = w, !.height = h,
                         !.preset = p] :
         w \in SampleSizes, h \in SampleSizes, p \in SamplePresets}
    \cup {[NoCall EXCEPT !.fn = "shouldSkipImage", !.width = w, !.height = h, !.src = u] :
         w \in SampleSizes, h \in SampleSizes, u \in DataSources \cup UrlSources}
    \cup {[NoCall EXCEPT !.fn = "sanitizeFilename", !.title = t] : t \in Titles}
    \cup {[NoCall EXCEPT !.fn = "isUserMessage", !.userMarker = u, !.assistantMarker = a,
                         !.index = i] :
         u \in BOOLEAN, a \in BOOLEAN, i \in 0..MaxIndex}
    \cup {[NoCall EXCEPT !.fn = "processImage", !.src = u, !.width = reading.w,
                         !.height = reading.h, !.complete = reading.complete,
                         !.signal = sig, !.encodeOk = ok] :
         u \in DataSources \cup UrlSources, reading \in ImgReadings,
         sig \in {"load", "error"}, ok \in BOOLEAN}

InitPure ==
    /\ batch = BatchIdle
    /\ page = NoPage
    /\ runs = <<>>
    /\ running = 0
    /\ article = NoArticle
    /\ call \in PureCalls
    /\ popup = NewPopup

CallCalculateScale ==
    /\ call.fn = "calculateScale"
    /\ ~call.done
    /\ call' = [call EXCEPT !.done = TRUE,
                  !.scale = CalculateScale(call.width, call.height,
                                           call.maxWidth, call.maxHeight)]
    /\ UNCHANGED <<batch, page, runs, running, article, popup>>

CallGetScaledDimensions ==
    /\ call.fn = "getScaledDimensions"
    /\ ~call.done
    /\ call' = [call EXCEPT !.done = TRUE,
                  !.dims = GetScaledDimensions(call.width, call.height, call.preset)]
    /\ UNCHANGED <<batch, page, runs, running, article, popup>>

CallShouldSkipImage ==
    /\ call.fn = "shouldSkipImage"
    /\ ~call.done
    /\ call' = [call EXCEPT !.done = TRUE,
                  !.skip = ShouldSkipImage(call.src, call.width, call.height)]
    /\ UNCHANGED <<batch, page, runs, running, article, popup>>

CallSanitizeFilename ==
    /\ call.fn = "sanitizeFilename"
    /\ ~call.done
    /\ call' = [call EXCEPT !.done = TRUE, !.name = SanitizeFilename(call.title)]
    /\ UNCHANGED <<batch, page, runs, running, article, popup>>

CallIsUserMessage ==
    /\ call.fn = "isUserMessage"
    /\ ~call.done
    /\ call' = [call EXCEPT !.done = TRUE,
                  !.isUser = IsUserMessage(call.userMarker, call.assistantMarker, call.index),
                  !.warned = IndexFallbackWarned(call.userMarker, call.assistantMarker)]
    /\ UNCHANGED <<batch, page, runs, running, article, popup>>

\* sanitizeFilename applied to the name it returned.
CallSanitizeFilenameAgain ==
    /\ call.fn = "sanitizeFilename"
    /\ call.done
    /\ ~call.redone
    /\ call' = [call EXCEPT !.redone = TRUE, !.renamed = SanitizeFilename(call.name)]
    /\ UNCHANGED <<batch, page, runs, running, article, popup>>

\* processImage(img, preset) on an img of the fragment, and what the loop of
\* processAllImages makes of the element.
CallProcessImage ==
    /\ call.fn = "processImage"
    /\ ~call.done
    /\ LET reading == [w |-> call.width, h |-> call.height, complete |-> call.complete]
           result == ProcessImageResult(call.src, reading, call.signal, call.encodeOk)
           before == [NewRun("medium") EXCEPT !.tempDiv = <<ImgElement(call.src)>>,
                                              !.imgIdx = 1]
       IN  call' = [call EXCEPT !.done = TRUE, !.imgResult = result,
                      !.awaited = ReachesLoadWait(call.src, reading),
                      !.element = ApplyImageResult(before, result).tempDiv[1]]
    /\ UNCHANGED <<batch, page, runs, running, article, popup>>

NextPure ==
    \/ CallCalculateScale
    \/ CallGetScaledDimensions
    \/ CallShouldSkipImage
    \/ CallSanitizeFilename
    \/ CallIsUserMessage
    \/ CallProcessImage
    \/ CallSanitizeFilenameAgain

SpecPure == InitPure /\ [][NextPure]_vars

\* The call of fn has returned.
Returned(fn) == call.fn = fn /\ call.done

\* C25: calculateScale returns min(maxWidth/width, maxHeight/height, 1): the
\* factor is one of the three, none of the three is smaller, it never exceeds 1,
\* and it is exactly 1 when width <= maxWidth and height <= maxHeight.
C25_ScaleIsCappedMin ==
    Returned("calculateScale") =>
        LET f == call.scale
            x == Frac(call.maxWidth, call.width)
            y == Frac(call.maxHeight, call.height)
        IN  /\ f.den > 0
            /\ f.num * call.width <= call.maxWidth * f.den
            /\ f.num * call.height <= call.maxHeight * f.den
            /\ f.num <= f.den
            /\ \/ f.num * call.width = call.maxWidth * f.den
               \/ f.num * call.height = call.maxHeight * f.den
               \/ f.num = f.den
            /\ (call.width <= call.maxWidth /\ call.height <= call.maxHeight)
                   => f.num = f.den

\* A small image was left at factor 1, and a large one was scaled down.
C25_Witness ==
    /\ Returned("calculateScale")
    /\ \/ call.width < call.maxWidth /\ call.height < call.maxHeight
          /\ call.scale.num = call.scale.den
       \/ call.width = 1600 /\ call.height = 800 /\ call.maxWidth = 800
          /\ call.maxHeight = 600 /\ 2 * call.scale.num = call.scale.den

\* n is num/den rounded to the nearest integer (a half goes up).
IsNearest(n, num, den) ==
    /\ 2 * n * den - den <= 2 * num
    /\ 2 * num < 2 * n * den + den

C28_SkipExactly ==
    Returned("shouldSkipImage") =>
        /\ call.skip <=> (call.src \in DataSources \/ call.width < 50 \/ call.height < 50)
        /\ (call.src \in UrlSources /\ call.width = 50 /\ call.height = 50) => ~call.skip

\* A remote image of exactly 50x50 was kept.
C28_Witness ==
    /\ Returned("shouldSkipImage")
    /\ call.src \in UrlSources
    /\ call.width = 50 /\ call.height = 50
    /\ ~call.skip

\* Every character of the title is one of chars (so is the empty title).
OnlyChars(title, chars) == \A k \in 1..Len(title) : title[k] \in chars

C30_NoEdgeHyphen ==
    Returned("sanitizeFilename") =>
        /\ call.name # <<>>
        /\ Head(call.name) # "-"
        /\ call.name[Len(call.name)] # "-"

\* C33: a turn with the user marker is a user turn; without it, a turn with the
\* assistant marker is an assistant turn; with neither marker the role is the
\* parity of the index (even = user, odd = assistant), and the diagnostic is
\* emitted exactly in that last case.
C33_RoleDetection ==
    Returned("isUserMessage") =>
        /\ call.userMarker => call.isUser
        /\ (~call.userMarker /\ call.assistantMarker) => ~call.isUser
        /\ (~call.userMarker /\ ~call.assistantMarker) => (call.isUser <=> call.index % 2 = 0)
        /\ call.warned <=> (~call.userMarker /\ ~call.assistantMarker)

\* A turn at an odd index that carries both markers was taken as a user turn,
\* without a diagnostic.
C33_Witness ==
    /\ Returned("isUserMessage")
    /\ call.userMarker /\ call.assistantMarker
    /\ call.index = 1
    /\ call.isUser
    /\ ~call.warned

(***************************************************************************)
(* One popup instance: the clicks on Export and the callbacks of the       *)
(* chrome.* calls, each with the outcomes the browser can give it.         *)
(***************************************************************************)
\* exportButton click handler.
Click ==
    /\ popup.open
    /\ popup.clicks < MaxClicks
    /\ popup' =
          IF ClickIgnored(popup)
          THEN [popup EXCEPT !.clicks = @ + 1]
          ELSE Register(Log([popup EXCEPT !.clicks = @ + 1, !.exportInProgress = TRUE,
                                          !.disabled = TRUE, !.status = ""],
                            <<"click", "">>),
                        Callback("query", <<>>))
    /\ UNCHANGED <<batch, page, runs, running, article, call>>

\* The callback of chrome.tabs.query in the click handler.
TabsQueried ==
    /\ \E k \in 1..Len(popup.pending), hasTab \in BOOLEAN :
          /\ popup.pending[k].kind = "query"
          /\ popup' =
                IF ~hasTab
                THEN ShowError(Taken(popup, k), "Could not access tab")
                ELSE Register(Log(Taken(popup, k), <<"ping", "">>), Callback("ping", <<>>))
    /\ UNCHANGED <<batch, page, runs, running, article, call>>

\* The callback of the ping: the tab is gone, the content script is not loaded,
\* it answers { status: 'ok' }, or it answers something else.
PingAnswered ==
    /\ \E k \in 1..Len(popup.pending), outcome \in {"gone", "notLoaded", "ok", "bad"} :
          /\ popup.pending[k].kind = "ping"
          /\ popup' =
                CASE outcome = "gone" ->
                       ShowError(Taken(popup, k), "The ChatGPT tab was closed or navigated away")
                  [] outcome = "notLoaded" -> InjectScripts(Taken(popup, k), SCRIPTS)
                  [] outcome = "ok" -> SendExportMessage(Taken(popup, k))
                  [] OTHER ->
                       ShowError(Taken(popup, k), "Content script not responding correctly")
    /\ UNCHANGED <<batch, page, runs, running, article, call>>

\* The callback of chrome.tabs.executeScript in injectScripts.
ScriptExecuted ==
    /\ \E k \in 1..Len(popup.pending), failed \in BOOLEAN :
          /\ popup.pending[k].kind = "inject"
          /\ popup' = AfterExecuteScript(Taken(popup, k), popup.pending[k].scripts, failed)
    /\ UNCHANGED <<batch, page, runs, running, article, call>>

\* The callback of the convert_to_html message in sendExportMessage.
ExportAnswered ==
    /\ \E k \in 1..Len(popup.pending),
          outcome \in {"lastError", "noResponse", "success", "streaming", "failure"} :
          /\ popup.pending[k].kind = "export"
          /\ popup' =
                CASE outcome = "lastError" ->
                       ShowError(Taken(popup, k), "Failed to communicate with page")
                  [] outcome = "noResponse" ->
                       ShowError(Taken(popup, k), "No response from content script")
                  [] outcome = "success" -> ShowSuccess(Taken(popup, k))
                  [] outcome = "streaming" ->
                       ShowError(Taken(popup, k), "Please wait for ChatGPT to finish responding")
                  [] OTHER -> ShowError(Taken(popup, k), "Export failed")
    /\ UNCHANGED <<batch, page, runs, running, article, call>>

\* The timer of showSuccess: window.close().
CloseTimer ==
    /\ \E k \in 1..Len(popup.pending) :
          /\ popup.pending[k].kind = "close"
          /\ popup' = [popup EXCEPT !.open = FALSE, !.pending = <<>>]
    /\ UNCHANGED <<batch, page, runs, running, article, call>>

InitPopup ==
    /\ batch = BatchIdle
    /\ page = NoPage
    /\ runs = <<>>
    /\ running = 0
    /\ article = NoArticle
    /\ call = NoCall
    /\ popup = NewPopup

NextPopup ==
    \/ Click
    \/ TabsQueried
    \/ PingAnswered
    \/ ScriptExecuted
    \/ ExportAnswered
    \/ CloseTimer

SpecPopup == InitPopup /\ [][NextPopup]_vars

\* The events of one kind in the trace of the popup, in order.
Events(kind) == SelectSeq(popup.trace, LAMBDA e : e[1] = kind)

\* The pending callbacks of one kind.
PendingOf(kind) == {k \in 1..Len(popup.pending) : popup.pending[k].kind = kind}

\* C34: once a click has set exportInProgress, a further click changes nothing
\* until the flag is reset: no second ping or injection sequence starts (one
\* callback is pending at most) and at most one convert_to_html request is
\* outstanding.
C34_ClickGuard ==
    /\ [](Len(popup.pending) <= 1 /\ Cardinality(PendingOf("export")) <= 1)
    /\ [][(popup.exportInProgress /\ popup'.clicks # popup.clicks) =>
             popup' = [popup EXCEPT !.clicks = @ + 1]]_vars

\* A second click came while the request of the first was outstanding, and was
\* ignored.
C34_Witness ==
    /\ popup.clicks = 2
    /\ Len(Events("click")) = 1
    /\ PendingOf("export") # {}
    /\ popup.exportInProgress

\* The messages of the failure outcomes of an export attempt.
FailureMessages ==
    {"Could not access tab", "The ChatGPT tab was closed or navigated away",
     "Failed to load", "Content script not responding correctly",
     "Failed to communicate with page", "No response from content script",
     "Export failed", "Please wait for ChatGPT to finish responding"}

\* C35: every failure outcome of an export attempt shows its error, resets
\* exportInProgress and enables the button again; the flag is never true while
\* an error is shown, and the click that follows an error is accepted.
C35_FailureResets ==
    /\ [](popup.status = "error" =>
             /\ ~popup.exportInProgress
             /\ ~popup.disabled
             /\ popup.pending = <<>>
             /\ popup.trace[Len(popup.trace)][1] = "error"
             /\ popup.trace[Len(popup.trace)][2] \in FailureMessages)
    /\ [][(Len(Events("error"))' > Len(Events("error"))) =>
             (popup'.status = "error" /\ ~popup'.exportInProgress)]_vars
    /\ [][(popup.status = "error" /\ popup'.clicks # popup.clicks) =>
             (popup'.exportInProgress /\ Len(Events("click"))' = Len(Events("click")) + 1)]_vars

\* After a script failed to load and its error was shown, the next click was
\* accepted.
C35_Witness ==
    /\ Len(Events("injectFailed")) = 1
    /\ Len(Events("error")) = 1
    /\ Len(Events("click")) = 2
    /\ popup.exportInProgress

\* The position of a script in SCRIPTS.
ScriptIndex(file) == CHOOSE n \in 1..Len(SCRIPTS) : SCRIPTS[n] = file

\* C37: when the content script is not loaded the popup injects the scripts in
\* the order sanitizer, highlighter, utils, images, content, each injection
\* started only after the previous one succeeded; after the first failure it
\* injects nothing more and sends no request (it shows the error); the request
\* of an injecting attempt is sent only after all five scripts succeeded.
C37_InjectionOrder ==
    \A p \in 1..Len(popup.trace) :
        LET e == popup.trace[p]
            next == popup.trace[p + 1]
        IN  /\ e[1] = "inject" =>
                  /\ p > 1
                  /\ IF e[2] = SCRIPTS[1]
                     THEN popup.trace[p - 1][1] = "ping"
                     ELSE popup.trace[p - 1] = <<"injected", SCRIPTS[ScriptIndex(e[2]) - 1]>>
                  /\ p < Len(popup.trace) =>
                        (next[1] \in {"injected", "injectFailed"} /\ next[2] = e[2])
            /\ (e[1] = "injected" /\ p < Len(popup.trace)) =>
                  IF e[2] = SCRIPTS[Len(SCRIPTS)]
                  THEN next[1] = "request"
                  ELSE next = <<"inject", SCRIPTS[ScriptIndex(e[2]) + 1]>>
            /\ e[1] = "injectFailed" =>
                  /\ p < Len(popup.trace)
                  /\ next = <<"error", "Failed to load">>
                  /\ p + 1 < Len(popup.trace) => popup.trace[p + 2][1] = "click"
            /\ e[1] = "request" =>
                  /\ p > 1
                  /\ \/ popup.trace[p - 1][1] = "ping"
                     \/ /\ p > 2 * Len(SCRIPTS) + 1
                        /\ popup.trace[p - 2 * Len(SCRIPTS) - 1][1] = "ping"
                        /\ \A n \in 1..Len(SCRIPTS) :
                              /\ popup.trace[p - 2 * (Len(SCRIPTS) - n) - 2] =
                                    <<"inject", SCRIPTS[n]>>
                              /\ popup.trace[p - 2 * (Len(SCRIPTS) - n) - 1] =
                                    <<"injected", SCRIPTS[n]>>

\* The third script failed to load in the first attempt, after two injections and
\* with no request; the second attempt injected all five and sent the request.
C37_Witness ==
    /\ Len(Events("click")) = 2
    /\ Len(Events("injected")) = 2 + Len(SCRIPTS)
    /\ Events("injectFailed") = <<<<"injectFailed", SCRIPTS[3]>>>>
    /\ Len(Events("request")) = 1
    /\ popup.trace[Len(popup.trace)][1] = "request"
    /\ PendingOf("export") # {}

\* C36: the listener sends exactly one response to every convert_to_html
\* request, and only when the conversion has settled: none while the run is in
\* progress, one (the result of the run) once it has ended.
C36_OneResponseAfterSettle ==
    \A r \in 1..Len(runs) :
        /\ runs[r].responses <= 1
        /\ runs[r].pc # "done" => (runs[r].responses = 0 /\ runs[r].response = NoResult)
        /\ runs[r].pc = "done" =>
              /\ runs[r].responses = 1
              /\ runs[r].result.settled = "resolved"
              /\ runs[r].response = runs[r].result

\* A run over a long conversation failed on its way and the request was
\* answered, once, with that failure.
C36_Witness ==
    /\ Len(runs) = 1
    /\ Len(page.articles) > 10
    /\ runs[1].pc = "done"
    /\ runs[1].index > 0
    /\ runs[1].responses = 1
    /\ ~runs[1].response.success
    /\ runs[1].response.error # ""

\* C38: processImage gets to the load wait only for an image whose natural
\* width and height are both at least 50; an image whose natural size is still
\* 0 x 0 (not loaded, or failed to load) is classified as skipped and left as it
\* was: it is not awaited and does not become an error marker.
C38_UnloadedIsSkipped ==
    Returned("processImage") =>
        /\ call.awaited => (call.width >= 50 /\ call.height >= 50)
        /\ (call.width = 0 /\ call.height = 0) =>
              /\ ~call.awaited
              /\ call.imgResult.kind = "skipped"
              /\ call.imgResult.dataUrl = call.src
              /\ call.element = ImgElement(call.src)

\* A remote image that is complete without a natural size (it failed to load)
\* was skipped although it would have signalled an error.
C38_Witness ==
    /\ Returned("processImage")
    /\ call.src \in UrlSources
    /\ call.width = 0 /\ call.height = 0 /\ call.complete
    /\ call.signal = "error"
    /\ call.imgResult.kind = "skipped"
    /\ call.element = ImgElement(call.src)

\* C39: for a recognized preset and an image that is not skipped (natural width
\* and height at least 50) the target dimensions satisfy
\* 1 <= width <= min(naturalWidth, maxWidth) and
\* 1 <= height <= min(naturalHeight, maxHeight).
C39_TargetWithinBounds ==
    (/\ Returned("getScaledDimensions")
     /\ call.preset \in {"high", "medium", "low"}
     /\ call.width >= 50 /\ call.height >= 50) =>
        LET config == ImagePreset(call.preset)
        IN  /\ ~call.dims.null
            /\ 1 <= call.dims.width
            /\ call.dims.width <= Min(call.width, config.maxWidth)
            /\ 1 <= call.dims.height
            /\ call.dims.height <= Min(call.height, config.maxHeight)

\* C40: sanitizeFilename is idempotent: applied to its own result it returns
\* that result; and the result holds no unsafe character.
C40_SanitizeIdempotent ==
    (call.fn = "sanitizeFilename" /\ call.redone) =>
        /\ call.renamed = call.name
        /\ \A k \in 1..Len(call.name) : call.name[k] \notin UnsafeChars

(***************************************************************************)
(* Claims about processArticle (checked under SpecClean).                  *)
(***************************************************************************)

\* The nodes of a fragment, as a set.
Nodes(fragment) == {Flatten(fragment)[k] : k \in 1..Len(Flatten(fragment))}

\* The names of the attributes of a node.
AttrNames(node) == {a.name : a \in node.attrs}

\* C16: with preset 'none' processAllImages replaces every img of the fragment
\* by a placeholder span whose text is the alt text, or '[Image removed]' when
\* there is none, counts each as skipped and never waits for a load or
\* attempts an encode; and the generation-image containers (id prefix
\* 'image-') are removed from the clone before sanitization, so that nothing
\* of them reaches the sanitizer.
C16_NoneStripsImages ==
    article.quality = "none" =>
        /\ article.pc # "image"
        /\ article.waits = 0
        /\ article.encodes = 0
        /\ article.sanitizeCalls > 0 =>
              /\ \A n \in Nodes(article.sanitizeInput) : ~Matches("dalleImageContainer", n)
              /\ \A n \in Nodes(article.sanitized) :
                    /\ n.text # "Generated image"
                    /\ AttrValue(n, "alt") # {"Generated image"}
        /\ (article.libs.imagesJs /\ article.pc \in {"highlight", "returned"}) =>
              LET spans == SelectSeq(Flatten(article.tempDiv),
                                     LAMBDA n : AttrIs(n, "class", {"image-placeholder"}))
                  imgs == SelectSeq(Flatten(article.cleaned), LAMBDA n : n.tag = "img")
              IN  /\ \A n \in Nodes(article.tempDiv) : n.tag # "img"
                  /\ article.stats = [ZeroStats EXCEPT !.skipped = Len(imgs)]
                  /\ Len(spans) = Len(imgs)
                  /\ \A k \in 1..Len(spans) :
                        /\ spans[k].tag = "span"
                        /\ Len(spans[k].kids) = 1
                        /\ spans[k].kids[1].tag = "#text"
                        /\ IF AttrValue(imgs[k], "alt") = {}
                           THEN spans[k].kids[1].text = "[Image removed]"
                           ELSE spans[k].kids[1].text \in AttrValue(imgs[k], "alt")

\* A turn with a generated image in its container and an image without alt
\* text has been processed in 'none' mode.
C16_Witness ==
    /\ article.quality = "none"
    /\ article.libs.imagesJs
    /\ article.pc = "returned"
    /\ article.source = <<Generated, Icon>>
    /\ article.returned = <<PlaceholderSpan(Icon)>>

\* The stages of processArticle in their order, processAllImages being called
\* only when images.js is loaded.
StageOrder(imagesJs) ==
    IF imagesJs THEN <<"remove", "sanitize", "strip", "images", "highlight">>
    ELSE <<"remove", "sanitize", "strip", "highlight">>

\* C17: in every processArticle call the structural removals are applied to
\* the clone first, then the sanitizer is invoked exactly once, on the
\* pre-filtered markup (no products widget, collapsed popover, screen-reader-
\* only node or interactive control in it, and in 'none' mode no
\* generation-image container), then the attribute strip pass runs; image
\* resolution and highlighting start only after these three.
C17_StageOrder ==
    LET order == StageOrder(article.libs.imagesJs)
    IN  /\ Len(article.stages) <= Len(order)
        /\ \A k \in 1..Len(article.stages) : article.stages[k] = order[k]
        /\ article.sanitizeCalls <= 1
        /\ article.pc \in {"strip", "images", "image", "highlight", "returned"} =>
              article.sanitizeCalls = 1
        /\ article.sanitizeCalls = 1 =>
              \A n \in Nodes(article.sanitizeInput) :
                  /\ \A selector \in {"productsWidget", "closedPopover",
                                      "screenReaderOnly", "interactive"} :
                        ~Matches(selector, n)
                  /\ article.quality = "none" => ~Matches("dalleImageContainer", n)

\* The image loop has started on a turn that held a button and a generated
\* image with its share button.
C17_Witness ==
    /\ article.pc = "image"
    /\ article.stages = <<"remove", "sanitize", "strip", "images">>
    /\ article.source = <<CopyButton, Generated>>
    /\ article.images = 1

\* C18: processing a turn never mutates the turn in the page: the source
\* element is the same before and after every step of processArticle, whether
\* the call returns or throws.
C18_SourceNotMutated == [][article'.source = article.source]_vars

\* processArticle has returned an empty fragment for a turn whose nodes were
\* all removed from the clone; the turn still holds them.
C18_Witness ==
    /\ article.pc = "returned"
    /\ article.source = <<CopyButton, Widget>>
    /\ article.clone.content = <<>>
    /\ article.returned = <<>>

\* C19 as stated: the fragment processArticle returns contains only tags of
\* the tag allow-list and only attributes of the attribute allow-list.
C19_AllowListOnly ==
    article.pc = "returned" =>
        \A n \in Nodes(article.returned) :
            /\ n.tag \in ALLOWED_TAGS \cup {"#text"}
            /\ AttrNames(n) \subseteq ALLOWED_ATTR

\* C19, amended: the markup that leaves the attribute strip pass contains only
\* tags of the tag allow-list and only attributes of {class, href, target,
\* rel, src, alt}, whatever the turn contained and whatever attribute the
\* sanitizer let through; the fragment processArticle returns adds to these
\* only the span elements the image stage and the highlighter insert (image
\* placeholder, image error marker, highlighter markup) and the
\* data-highlighted mark of the highlighter on a code element.
C19_AllowListAndInserted ==
    /\ article.pc \in {"images", "image", "highlight", "returned"} =>
          \A n \in Nodes(article.cleaned) :
              /\ n.tag \in ALLOWED_TAGS \cup {"#text"}
              /\ AttrNames(n) \subseteq ALLOWED_ATTR
    /\ article.pc \in {"image", "highlight", "returned"} =>
          \A n \in Nodes(article.tempDiv) :
              /\ \/ n.tag \in ALLOWED_TAGS \cup {"#text"}
                 \/ /\ n.tag = "span"
                    /\ AttrValue(n, "class") \in
                           {{"image-placeholder"}, {"image-error"}, {"hljs-keyword"}}
              /\ \/ AttrNames(n) \subseteq ALLOWED_ATTR
                 \/ /\ n.tag = "code"
                    /\ AttrNames(n) \subseteq ALLOWED_ATTR \cup {"data-highlighted"}
    /\ article.pc = "returned" => article.returned = article.tempDiv

\* The sanitizer let an attribute through on a turn whose image became a
\* placeholder.
C19_Witness ==
    /\ article.pc = "returned"
    /\ \E n \in Nodes(article.sanitized) : ~(AttrNames(n) \subseteq ALLOWED_ATTR)
    /\ \E n \in Nodes(article.returned) : AttrIs(n, "class", {"image-placeholder"})

InitBatch ==
    /\ batch \in {BatchCall(items, b, p) :
                     items \in ItemLists, b \in 1..MaxBatch, p \in BOOLEAN}
    /\ page = NoPage
    /\ runs = <<>>
    /\ running = 0
    /\ article = NoArticle
    /\ call = NoCall
    /\ popup = NewPopup

NextBatch ==
    \/ ChunkBegin
    \/ TransformStart
    \/ TransformDone
    \/ ReportProgress
    \/ YieldInvoke
    \/ YieldResume

SpecBatch == InitBatch /\ [][NextBatch]_vars

(***************************************************************************)
(* Claims about the batch scheduler (checked under SpecBatch).             *)
(***************************************************************************)

\* C1: when processInBatches returns, the result list has the length of the item
\* list and its i-th element is transform(items[i]), whatever the batch size;
\* before that the results are the transformed prefix of the items.
C1_ResultsInInputOrder ==
    /\ Len(batch.results) <= Len(batch.items)
    /\ \A k \in 1..Len(batch.results) : batch.results[k] = Transform(batch.items[k])
    /\ batch.pc = "done" => Len(batch.results) = Len(batch.items)

\* A call over several chunks of distinct items has returned.
C1_Witness ==
    /\ batch.pc = "done"
    /\ Len(batch.items) >= 3
    /\ batch.batchSize < Len(batch.items)
    /\ batch.items[1] # batch.items[2]

\* C2: with n > 0 items and batch size b, onProgress is called ceil(n/b) times
\* in all, the k-th call being (min(k*b, n), n); for n = 25, b = 10 the calls
\* are (10,25), (20,25), (25,25).
C2_ProgressReports ==
    LET n == Len(batch.items)
        b == batch.batchSize
    IN  /\ \A k \in 1..Len(batch.progress) : batch.progress[k] = <<Min(k * b, n), n>>
        /\ \A k \in 1..(Len(batch.progress) - 1) :
               batch.progress[k][1] < batch.progress[k + 1][1]
        /\ (batch.pc = "done" /\ batch.hasProgress /\ n > 0) =>
               /\ Len(batch.progress) = Ceil(n, b)
               /\ batch.progress[Len(batch.progress)] = <<n, n>>
        /\ (batch.pc = "done" /\ batch.hasProgress /\ n = 25 /\ b = 10) =>
               batch.progress = << <<10, 25>>, <<20, 25>>, <<25, 25>> >>

\* The call with 25 items and batch size 10 has returned, its last chunk partial.
C2_Witness ==
    /\ batch.pc = "done"
    /\ batch.hasProgress
    /\ Len(batch.items) = 25
    /\ batch.batchSize = 10
    /\ Len(batch.progress) = 3

\* C3: when processInBatches returns, the yield primitive has been invoked
\* ceil(n/batchSize) times, once after each completed chunk, the final partial
\* chunk included (3 for n = 25, b = 10; 1 for n = 3, b = 10).
C3_YieldCount ==
    LET n == Len(batch.items)
        b == batch.batchSize
    IN  /\ batch.yields <= Ceil(n, b)
        /\ batch.pc = "yielded" => batch.yields = Ceil(ChunkEnd(batch), b)
        /\ batch.pc = "done" => batch.yields = Ceil(n, b)
        /\ (batch.pc = "done" /\ n = 25 /\ b = 10) => batch.yields = 3
        /\ (batch.pc = "done" /\ n = 3 /\ b = 10) => batch.yields = 1

\* A call whose final chunk is partial has returned after yielding for it too.
C3_Witness ==
    /\ batch.pc = "done"
    /\ Len(batch.items) = 3
    /\ batch.batchSize = 10
    /\ batch.yields = 1

\* C4: on an empty item list processInBatches returns an empty result and
\* never calls transform or onProgress.
C4_EmptyInput ==
    Len(batch.items) = 0 =>
        /\ batch.results = <<>>
        /\ batch.calls = 0
        /\ batch.progress = <<>>
        /\ batch.pc \in {"chunk", "done"}

\* The call on the empty list, given a progress callback, has returned.
C4_Witness ==
    /\ batch.pc = "done"
    /\ batch.items = <<>>
    /\ batch.hasProgress

\* The number of transforms that have settled before position p of the trace.
SettledBefore(p) ==
    Cardinality({q \in 1..(p - 1) : batch.trace[q][1] = "settled"})

\* C31: at every chunk boundary all transforms of chunk k have completed, then
\* onProgress is invoked for chunk k, then the yield primitive is invoked and
\* awaited, and only after the yield has resolved does the first transform of
\* chunk k+1 start.
C31_ChunkBoundaryOrder ==
    \A p \in 1..Len(batch.trace) :
        LET e == batch.trace[p]
            k == (e[2] - 1) \div batch.batchSize
            h == IF batch.hasProgress THEN 1 ELSE 0
        IN  (e[1] = "transform" /\ e[2] > 1 /\ (e[2] - 1) % batch.batchSize = 0) =>
                /\ p > 3 + h
                /\ batch.trace[p - 1] = <<"resumed", k>>
                /\ batch.trace[p - 2] = <<"yield", k>>
                /\ batch.hasProgress => batch.trace[p - 3] = <<"progress", e[2] - 1>>
                /\ batch.trace[p - 3 - h] = <<"settled", e[2] - 1>>
                /\ SettledBefore(p) = e[2] - 1

\* The first transform of the second chunk has started, with a progress callback.
C31_Witness ==
    /\ batch.hasProgress
    /\ batch.batchSize = 10
    /\ batch.pc = "await"
    /\ batch.j = 11
    /\ batch.trace[Len(batch.trace)] = <<"transform", 11>>

=============================================================================
